---- MODULE Spec2Model ----
(***************************************************************************)
(* A model of sip-party's transport and transaction coordination layer:    *)
(*   - RetryThread, the timer/IO reactor        (src/sip/retrythread.py)   *)
(*   - TransactionManager       (src/sipparty/sip/transaction/manager.py)  *)
(*   - SIPTransport, dialog routing    (src/sipparty/sip/siptransport.py)  *)
(*   - SocketProxy reads and sipByteConsumer, the demultiplexer            *)
(*   - Transport, the socket cache               (src/sipparty/transport.py) *)
(* Each component has its own next-state relation and specification over   *)
(* the shared initial state.                                               *)
(***************************************************************************)
EXTENDS Integers, Sequences, FiniteSets, TLC

VARIABLES
    \* ---- RetryThread object state (retrythread.py:81-90)
    rthr_cancelled,     \* _rthr_cancelled
    rthr_retryTimes,    \* _rthr_retryTimes, a list of deadlines
    rthr_fdSources,     \* _rthr_fdSources, descriptor -> the source's action
    trigger,            \* bytes written to _rthr_triggerRunFD and not yet read
    fdReady,            \* other registered descriptors that have data to read
    \* ---- the position and locals of the thread executing run(); a local is
    \* put back to its initial value once the code no longer reads it
    rt_pc, rt_wait, rt_next, rt_now, rt_rsrcs, selectUntil,
    clock,              \* the value RetryThread.Clock() returns
    \* ---- threads calling addRetryTime() and cancel()
    add_pc, cancel_pc,
    \* ---- history of the run
    nFired, nConsumed, nInserted, nAddCalls, lastAdded, nCancel,
    wakesSinceCancel,
    fd_last,            \* the last addInputFD call and its outcome
    \* ---- TransactionManager (manager.py:52-54)
    transactions,       \* self.transactions, TransactionKey -> transaction
    tm_last,            \* the last call made on the manager and its outcome
    tm_sent,            \* the requests the manager was asked a transaction
                        \* for before they were sent
    \* ---- SIPTransport (siptransport.py:79-88)
    sptr_dialogHandlers,        \* _sptr_dialogHandlers, AOR -> handler
    sptr_provisionalDialogs,    \* _sptr_provisionalDialogs, ID -> dialog
    sptr_establishedDialogs,    \* _sptr_establishedDialogs, ID -> dialog
    nMessages,                  \* len(_sptr_messages)
    dialogs,            \* the dialog objects the AOR handlers have returned
    sip_last,           \* the last call made on the transport and its outcome
    \* ---- the data a socket's data_callback was given, last and before
    dm_prev, dm_last,
    \* ---- Transport (transport.py:626-643) and the module global next_port
    tp_listen_sockets,      \* _tp_listen_sockets, a tree of dicts
    tp_connected_sockets,   \* _tp_connected_sockets, a tree of dicts
    next_port,              \* transport.next_port
    proxies,            \* the SocketProxy objects made so far
    tp_last,            \* the last call made on the transport and its outcome
    tp_threads,         \* where each thread calling get_send_from_address is
    gb_last,            \* the last call of GetBoundSocket by itself and its outcome
    \* ---- the UnregisteredPortGenerator objects callers iterate themselves
    gens

rtVars == <<rthr_cancelled, rthr_retryTimes, rthr_fdSources, trigger, fdReady,
            rt_pc, rt_wait, rt_next, rt_now, rt_rsrcs, selectUntil, clock,
            add_pc, cancel_pc, nFired, nConsumed, nInserted, nAddCalls,
            lastAdded, nCancel, wakesSinceCancel, fd_last>>

tmVars == <<transactions, tm_last, tm_sent>>

sipVars == <<sptr_dialogHandlers, sptr_provisionalDialogs,
             sptr_establishedDialogs, nMessages, dialogs, sip_last>>
dmVars == <<dm_prev, dm_last>>

tpVars == <<tp_listen_sockets, tp_connected_sockets, next_port, proxies,
            tp_last, tp_threads, gb_last>>

vars == <<rtVars, tmVars, sipVars, dmVars, tpVars, gens>>

notRt == <<tmVars, sipVars, dmVars, tpVars, gens>>
notTm == <<rtVars, sipVars, dmVars, tpVars, gens>>
notSip == <<rtVars, tmVars, tpVars, gens>>
notTp == <<rtVars, tmVars, sipVars, dmVars, gens>>

\* ------------------------------------------------------------------ bounds
MaxClock == 2
MaxDeadline == 2
MaxAdds == 3
MaxCancels == 2
MaxDialogs == 2
MaxMessages == 3
MaxProxies == 3
MaxRetains == 2
MaxPortDrift == 3
MaxRuns == 2
MaxYields == 3

\* ------------------------------------------------------- program constants
DefaultWait == 3600

TriggerFD == 0
SockFD == 1
FDs == {TriggerFD, SockFD}

\* dict operations
DictSet(dict, key, val) ==
    [k \in DOMAIN dict \cup {key} |-> IF k = key THEN val ELSE dict[k]]
DictDel(dict, key) == [k \in DOMAIN dict \ {key} |-> dict[k]]

\* ================================================================== RetryThread

\* The index (0-based, as in the code) at which addRetryTime's scan stops:
\* the first entry that is not below ctime, or the length of the list.
ScanStop(rts, ctime) ==
    IF \E i \in 1..Len(rts) : ctime <= rts[i]
    THEN (CHOOSE i \in 1..Len(rts) :
              /\ ctime <= rts[i]
              /\ \A j \in 1..(i - 1) : rts[j] < ctime) - 1
    ELSE Len(rts)

\* Whether the scan returns early because ctime is already in the list.
AlreadyPresent(rts, ctime) ==
    LET ii == ScanStop(rts, ctime)
    IN  ii < Len(rts) /\ rts[ii + 1] = ctime

\* An insertion that puts ctime at the end of the list, whatever ii is.
ListAppend(rts, ii, ctime) == Append(rts, ctime)

\* list.insert(ii, ctime)
ListInsert(rts, ii, ctime) ==
    SubSeq(rts, 1, ii) \o <<ctime>> \o SubSeq(rts, ii + 1, Len(rts))

\* addRetryTime without the test for a time that is already present.
NewRetryTimesNoDedup(rts, ctime) ==
    ListInsert(rts, ScanStop(rts, ctime), ctime)

\* The list addRetryTime leaves behind.
NewRetryTimes(rts, ctime) ==
    IF AlreadyPresent(rts, ctime)
    THEN rts
    ELSE ListInsert(rts, ScanStop(rts, ctime), ctime)

\* del list[0]
DelHead(rts) == SubSeq(rts, 2, Len(rts))

\* What select() reports readable among the descriptors it was given.
Readable(rsrcs) ==
    rsrcs \cap ((IF trigger > 0 THEN {TriggerFD} ELSE {}) \cup fdReady)

rtHistory == <<nFired, nConsumed, nInserted, nAddCalls, lastAdded, nCancel,
               wakesSinceCancel, fd_last>>
rtObject == <<rthr_cancelled, rthr_retryTimes, rthr_fdSources, trigger, fdReady>>
rtLocals == <<rt_wait, rt_next, rt_now, rt_rsrcs, selectUntil>>
rtCallers == <<add_pc, cancel_pc>>

RetryInit ==
    /\ rthr_cancelled = FALSE
    /\ rthr_retryTimes = <<>>
    /\ rthr_fdSources = [fd \in {TriggerFD} |-> "recv"]
    /\ trigger = 0
    /\ fdReady = {}
    /\ rt_pc = "top"
    /\ rt_wait = DefaultWait
    /\ rt_next = 0
    /\ rt_now = 0
    /\ rt_rsrcs = {}
    /\ selectUntil = 0
    /\ clock = 0
    /\ add_pc = "idle"
    /\ cancel_pc = "idle"
    /\ nFired = 0
    /\ nConsumed = 0
    /\ nInserted = 0
    /\ nAddCalls = 0
    /\ lastAdded = 0
    /\ nCancel = 0
    /\ wakesSinceCancel = 0
    /\ fd_last = [fd |-> TriggerFD, action |-> "recv", raised |-> ""]

\* run(): `while not self._rthr_cancelled`, then the call of select().
LoopTop ==
    /\ rt_pc = "top"
    /\ IF rthr_cancelled
       THEN /\ rt_pc' = "exited"
            /\ UNCHANGED <<rt_rsrcs, selectUntil>>
       ELSE /\ rt_pc' = "select"
            /\ rt_rsrcs' = DOMAIN rthr_fdSources
            /\ selectUntil' = clock + rt_wait
    /\ rt_wait' = 0
    /\ UNCHANGED <<rtObject, rt_next, rt_now, clock, rtCallers, rtHistory>>
    /\ UNCHANGED notRt

\* select() returns, on a readable descriptor or on its timeout, and
\* _rthr_processSelectedReadFDs runs each readable source's action.
select_returns ==
    /\ rt_pc = "select"
    /\ Readable(rt_rsrcs) # {} \/ clock >= selectUntil
    /\ trigger' = IF TriggerFD \in Readable(rt_rsrcs) THEN trigger - 1 ELSE trigger
    /\ fdReady' = fdReady \ Readable(rt_rsrcs)
    /\ rt_rsrcs' = {}
    /\ selectUntil' = 0
    /\ wakesSinceCancel' =
          IF rthr_cancelled /\ cancel_pc = "idle"
          THEN wakesSinceCancel + 1 ELSE wakesSinceCancel
    /\ UNCHANGED <<rthr_cancelled, rthr_retryTimes, rthr_fdSources, rt_wait,
                   rt_next, rt_now, clock, rtCallers, nFired, nConsumed,
                   nInserted, nAddCalls, lastAdded, nCancel,
                   fd_last>>

\* select() returns and the loop goes on to check its timers.
LoopSelect ==
    /\ select_returns
    /\ rt_pc' = "check"
    /\ UNCHANGED notRt

\* "Check timers", under the lock: read the length and the head of the list.
LoopCheck ==
    /\ rt_pc = "check"
    /\ IF Len(rthr_retryTimes) = 0
       THEN /\ rt_wait' = DefaultWait
            /\ rt_pc' = "top"
            /\ UNCHANGED rt_next
       ELSE /\ rt_next' = rthr_retryTimes[1]
            /\ rt_pc' = "clock"
            /\ UNCHANGED rt_wait
    /\ UNCHANGED <<rtObject, rt_now, rt_rsrcs, selectUntil, clock, rtCallers,
                   rtHistory>>
    /\ UNCHANGED notRt

\* A loop that reads the clock and goes on to the action whatever the time.
LoopClockNoWait ==
    /\ rt_pc = "clock"
    /\ rt_pc' = "fire"
    /\ rt_now' = clock
    /\ UNCHANGED <<rt_wait, rt_next>>
    /\ UNCHANGED <<rtObject, rt_rsrcs, selectUntil, clock, rtCallers, rtHistory>>
    /\ UNCHANGED notRt

\* now = self.Clock(); if next > now: wait = next - now; continue
LoopClock ==
    /\ rt_pc = "clock"
    /\ IF rt_next > clock
       THEN /\ rt_wait' = rt_next - clock
            /\ rt_pc' = "top"
            /\ rt_next' = 0
            /\ rt_now' = 0
       ELSE /\ rt_pc' = "fire"
            /\ rt_now' = clock
            /\ UNCHANGED <<rt_wait, rt_next>>
    /\ UNCHANGED <<rtObject, rt_rsrcs, selectUntil, clock, rtCallers, rtHistory>>
    /\ UNCHANGED notRt

\* action()
LoopFire ==
    /\ rt_pc = "fire"
    /\ nFired' = nFired + 1
    /\ rt_pc' = "remove"
    /\ UNCHANGED <<rtObject, rtLocals, clock, rtCallers, nConsumed, nInserted,
                   nAddCalls, lastAdded, nCancel, wakesSinceCancel,
                   fd_last>>
    /\ UNCHANGED notRt

\* Under the lock: del self._rthr_retryTimes[0]; then wait = 0.
LoopRemove ==
    /\ rt_pc = "remove"
    /\ Len(rthr_retryTimes) > 0
    /\ nConsumed' = nConsumed + 1
    /\ rthr_retryTimes' = DelHead(rthr_retryTimes)
    /\ rt_wait' = 0
    /\ rt_pc' = "top"
    /\ rt_next' = 0
    /\ rt_now' = 0
    /\ UNCHANGED <<rthr_cancelled, rthr_fdSources, trigger, fdReady, rt_rsrcs,
                   selectUntil, clock, rtCallers, nFired, nInserted, nAddCalls,
                   lastAdded, nCancel, wakesSinceCancel,
                   fd_last>>
    /\ UNCHANGED notRt

\* addRetryTime(ctime), the part under the lock. A time already in the list
\* returns from inside the lock, without the send that follows it.
AddRetryTime(ctime) ==
    /\ add_pc = "idle"
    /\ nAddCalls < MaxAdds
    /\ nAddCalls' = nAddCalls + 1
    /\ lastAdded' = ctime
    /\ rthr_retryTimes' = NewRetryTimes(rthr_retryTimes, ctime)
    /\ IF AlreadyPresent(rthr_retryTimes, ctime)
       THEN UNCHANGED <<nInserted, add_pc>>
       ELSE /\ nInserted' = nInserted + 1
            /\ add_pc' = "send"
    /\ UNCHANGED <<rthr_cancelled, rthr_fdSources, trigger, fdReady, rt_pc,
                   rtLocals, clock, cancel_pc, nFired, nConsumed, nCancel,
                   wakesSinceCancel,
                   fd_last>>
    /\ UNCHANGED notRt

\* addRetryTime without the send that wakes the loop.
AddNoSend ==
    /\ add_pc = "send"
    /\ add_pc' = "idle"
    /\ UNCHANGED <<rtObject, rt_pc, rtLocals, clock, cancel_pc, rtHistory>>
    /\ UNCHANGED notRt

\* addRetryTime: self._rthr_triggerRunFD.send('1')
AddSend ==
    /\ add_pc = "send"
    /\ trigger' = trigger + 1
    /\ add_pc' = "idle"
    /\ UNCHANGED <<rthr_cancelled, rthr_retryTimes, rthr_fdSources, fdReady,
                   rt_pc, rtLocals, clock, cancel_pc, rtHistory>>
    /\ UNCHANGED notRt

\* cancel(): self._rthr_cancelled = True
Cancel ==
    /\ cancel_pc = "idle"
    /\ nCancel < MaxCancels
    /\ nCancel' = nCancel + 1
    /\ rthr_cancelled' = TRUE
    /\ cancel_pc' = "send"
    /\ UNCHANGED <<rthr_retryTimes, rthr_fdSources, trigger, fdReady, rt_pc,
                   rtLocals, clock, add_pc, nFired, nConsumed, nInserted,
                   nAddCalls, lastAdded, wakesSinceCancel,
                   fd_last>>
    /\ UNCHANGED notRt

\* cancel() without the send that wakes the loop.
CancelNoSend ==
    /\ cancel_pc = "send"
    /\ cancel_pc' = "idle"
    /\ UNCHANGED <<rtObject, rt_pc, rtLocals, clock, add_pc, rtHistory>>
    /\ UNCHANGED notRt

\* cancel(): self._rthr_triggerRunFD.send('1')
CancelSend ==
    /\ cancel_pc = "send"
    /\ trigger' = trigger + 1
    /\ cancel_pc' = "idle"
    /\ UNCHANGED <<rthr_cancelled, rthr_retryTimes, rthr_fdSources, fdReady,
                   rt_pc, rtLocals, clock, add_pc, rtHistory>>
    /\ UNCHANGED notRt

\* The actions a source is registered with.
Actions == {"socket_selected", "other_action"}

\* An addInputFD that replaces the source of a registered descriptor.
AddInputFDReplace(fd, action) ==
    /\ rthr_fdSources' = DictSet(rthr_fdSources, fd, action)
    /\ fd_last' = [fd |-> fd, action |-> action, raised |-> ""]
    /\ UNCHANGED <<rthr_cancelled, rthr_retryTimes, trigger, fdReady, rt_pc,
                   rtLocals, clock, rtCallers, nFired, nConsumed, nInserted,
                   nAddCalls, lastAdded, nCancel, wakesSinceCancel>>
    /\ UNCHANGED notRt

\* addInputFD(fd, action)
AddInputFD(fd, action) ==
    /\ IF fd \in DOMAIN rthr_fdSources
       THEN /\ fd_last' = [fd |-> fd, action |-> action, raised |-> "ValueError"]
            /\ UNCHANGED rthr_fdSources
       ELSE /\ fd_last' = [fd |-> fd, action |-> action, raised |-> ""]
            /\ rthr_fdSources' = DictSet(rthr_fdSources, fd, action)
    /\ UNCHANGED <<rthr_cancelled, rthr_retryTimes, trigger, fdReady, rt_pc,
                   rtLocals, clock, rtCallers, nFired, nConsumed, nInserted,
                   nAddCalls, lastAdded, nCancel, wakesSinceCancel>>
    /\ UNCHANGED notRt

\* addInputFD for a descriptor that is not yet registered, as a caller
\* that registers each of its sockets once makes it.
AddNewInputFD(fd) ==
    /\ fd \notin DOMAIN rthr_fdSources
    /\ AddInputFD(fd, "socket_selected")

\* Data arrives on a registered descriptor.
FdData(fd) ==
    /\ fd \in DOMAIN rthr_fdSources \ {TriggerFD}
    /\ fd \notin fdReady
    /\ fdReady' = fdReady \cup {fd}
    /\ UNCHANGED <<rthr_cancelled, rthr_retryTimes, rthr_fdSources, trigger,
                   rt_pc, rtLocals, clock, rtCallers, rtHistory>>
    /\ UNCHANGED notRt

\* Time passes.
Tick ==
    /\ clock < MaxClock
    /\ clock' = clock + 1
    /\ UNCHANGED <<rtObject, rt_pc, rtLocals, rtCallers, rtHistory>>
    /\ UNCHANGED notRt

LoopStep ==
    LoopTop \/ LoopSelect \/ LoopCheck \/ LoopClock \/ LoopFire \/ LoopRemove

RetryNext ==
    \/ LoopTop
    \/ LoopSelect
    \/ LoopCheck
    \/ LoopClock
    \/ LoopFire
    \/ LoopRemove
    \/ \E ctime \in 1..MaxDeadline : AddRetryTime(ctime)
    \/ AddSend
    \/ Cancel
    \/ CancelSend
    \/ \E fd \in FDs : AddNewInputFD(fd)
    \/ \E fd \in FDs : FdData(fd)
    \/ Tick


\* =========================================================== TransactionManager

\* A message as the manager reads it: isrequest(), type (the method of a
\* request, the code of a response), ViaHeader.parameters.branch.value and
\* CseqHeader.reqtype.
Methods == {"INVITE", "BYE", "ACK"}
Codes == {180, 200, 404}
Branches == {"z9hG4bKa", "z9hG4bKb"}

TMRequests ==
    {[isrequest |-> TRUE, method |-> m, code |-> 0, branch |-> b, reqtype |-> m] :
        m \in Methods, b \in Branches}
TMResponses ==
    {[isrequest |-> FALSE, method |-> "", code |-> c, branch |-> b, reqtype |-> m] :
        c \in Codes, b \in Branches, m \in Methods}
TMMessages == TMRequests \cup TMResponses

\* Transaction.types
TransactionTypes == {"client", "server", "oneshot"}

\* The attributes a TransactionManager instance has: the names its class
\* body and __init__ define.
ManagerAttributes ==
    {"lookup_sentinel", "transport", "transaction_key_for_message",
     "transactions", "terminated_transactions",
     "transaction_for_outbound_message", "transaction_for_inbound_message",
     "add_transaction_for_message", "lookup_transaction",
     "_new_transaction_client", "_new_transaction_server",
     "_new_trasaction_oneshot", "new_transaction"}

\* The outcome of a call: a transaction returned or an exception raised.
Return(variant) == [kind |-> "return", exc |-> "", variant |-> variant]
Raise(exc) == [kind |-> "raise", exc |-> exc, variant |-> ""]

\* transaction_key_for_message(ttype, msg)
transaction_key_for_message(ttype, msg) == <<ttype, msg.branch, msg.reqtype>>

\* A lookup that lets the dict's own KeyError through as it is.
lookup_transaction_bare(table, ttype, message) ==
    LET tk == transaction_key_for_message(ttype, message)
    IN  IF tk \in DOMAIN table
        THEN Return(table[tk])
        ELSE Raise("KeyError")

\* lookup_transaction(ttype, message): the KeyError of a missing key is
\* re-raised with the message type added to its text.
lookup_transaction(table, ttype, message) ==
    LET tk == transaction_key_for_message(ttype, message)
    IN  IF tk \in DOMAIN table
        THEN Return(table[tk])
        ELSE Raise("KeyError; message type")

\* _new_transaction_client(msg, **kwargs)
new_transaction_client(msg) ==
    IF ~msg.isrequest THEN Raise("AssertionError")
    ELSE IF msg.method = "INVITE" THEN Return("InviteClientTransaction")
    ELSE Return("NonInviteClientTransaction")

\* _new_transaction_server(msg, **kwargs)
new_transaction_server(msg) ==
    IF ~msg.isrequest THEN Raise("AssertionError")
    ELSE IF msg.method = "INVITE" THEN Return("InviteServerTransaction")
    ELSE Return("NonInviteServerTransaction")

\* new_transaction(ttype, *args, **kwargs): getattr(self, '_new_transaction_'
\* + ttype) called with npos positional arguments; a specialist method takes
\* one, the message.
new_transaction(ttype, msg, npos) ==
    LET name == "_new_transaction_" \o ttype
    IN  IF ttype \notin TransactionTypes THEN Raise("AssertionError")
        ELSE IF name \notin ManagerAttributes THEN Raise("AttributeError")
        ELSE IF npos # 1 THEN Raise("TypeError")
        ELSE IF ttype = "client" THEN new_transaction_client(msg)
        ELSE new_transaction_server(msg)

\* self.new_transaction_for_request(ttype, msg): getattr on the instance.
new_transaction_for_request(ttype, msg) ==
    IF "new_transaction_for_request" \notin ManagerAttributes
    THEN Raise("AttributeError")
    ELSE IF ttype = "client" THEN new_transaction_client(msg)
    ELSE new_transaction_server(msg)

\* transaction_for_outbound_message(msg)
transaction_for_outbound_message(table, msg) ==
    IF msg.isrequest
    THEN new_transaction_for_request("client", msg)
    ELSE LET found == lookup_transaction(table, "server", msg)
         IN  IF found.kind = "return" THEN found
             ELSE IF 200 <= msg.code /\ msg.code < 300 /\ msg.reqtype = "INVITE"
             THEN new_transaction("oneshot", msg, 2)
             ELSE found

\* transaction_for_inbound_message(msg)
transaction_for_inbound_message(table, msg) ==
    IF msg.isrequest
    THEN new_transaction_for_request("server", msg)
    ELSE lookup_transaction(table, "client", msg)

NoCall == [op |-> "none", msg |-> CHOOSE m \in TMRequests : TRUE,
           result |-> Return(""), before |-> <<>>]

\* __init__: self.transactions = {}
TMInit ==
    /\ transactions = <<>>
    /\ tm_last = NoCall
    /\ tm_sent = {}

\* A caller asks for the transaction of a message it is about to send.
OutboundMessage(msg) ==
    /\ tm_last' = [op |-> "outbound", msg |-> msg,
                   result |-> transaction_for_outbound_message(transactions, msg),
                   before |-> transactions]
    /\ tm_sent' = IF msg.isrequest THEN tm_sent \cup {msg} ELSE tm_sent
    /\ UNCHANGED transactions
    /\ UNCHANGED notTm

\* A caller asks for the transaction of a message it has received.
InboundMessage(msg) ==
    /\ tm_last' = [op |-> "inbound", msg |-> msg,
                   result |-> transaction_for_inbound_message(transactions, msg),
                   before |-> transactions]
    /\ UNCHANGED <<transactions, tm_sent>>
    /\ UNCHANGED notTm

\* add_transaction_for_message(ttype, trans, message): the key is asked for
\* with one argument short, and the assignment is not reached.
AddTransactionForMessage(ttype, msg) ==
    /\ tm_last' = [op |-> "add", msg |-> msg, result |-> Raise("TypeError"),
                   before |-> transactions]
    /\ UNCHANGED <<transactions, tm_sent>>
    /\ UNCHANGED notTm

\* new_transaction(ttype, msg) called directly.
NewTransaction(ttype, msg) ==
    /\ tm_last' = [op |-> "new", msg |-> msg,
                   result |-> new_transaction(ttype, msg, 1),
                   before |-> transactions]
    /\ UNCHANGED <<transactions, tm_sent>>
    /\ UNCHANGED notTm

TMNext ==
    \/ \E msg \in TMMessages : OutboundMessage(msg)
    \/ \E msg \in TMMessages : InboundMessage(msg)
    \/ \E ttype \in {"client", "server"}, msg \in TMMessages :
           AddTransactionForMessage(ttype, msg)
    \/ \E ttype \in TransactionTypes, msg \in TMMessages :
           NewTransaction(ttype, msg)


\* ================================================================= SIPTransport

AORs == {"alice@atlanta.com", "bob@biloxi.com"}
Handlers == {"h1", "h2"}
NoTag == ""
MessageTypes == {"INVITE", "ACK", "200"}
FromTags == {NoTag, "r1", "L1"}
ToTags == {NoTag, "r1", "L1", "L2"}

\* A parsed message as the transport reads it: its type, the tag parameters
\* of its From and To headers (NoTag: the header has none), the value of its
\* Call-ID header and the AOR of its To header.
\* An empty callId stands for a message with no usable Call-ID header.
SipMessages ==
    [type : MessageTypes, fromTag : FromTags, toTag : ToTags,
     callId : {"c1"}, toAOR : AORs]
    \cup [type : {"INVITE"}, fromTag : {"r1"}, toTag : {NoTag, "L1"},
          callId : {""}, toAOR : AORs]

isresponse(msg) == msg.type = "200"

\* The tag a dialog object gives itself: each dialog object has its own.
LocalTag(d) == <<"L1", "L2", "L3", "L4">>[d]

\* prot.EstablishedDialogID(call_id, local_tag, remote_tag)
EstablishedDialogID(callId, localTag, remoteTag) == <<callId, localTag, remoteTag>>

\* prot.ProvisionalDialogIDFromEstablishedID(did)
ProvisionalDialogIDFromEstablishedID(did) == <<did[1], did[2]>>

\* dlg.provisionalDialogID and dlg.dialogID of a dialog object
provisionalDialogID(dlg) == <<dlg.callId, dlg.localTag>>
dialogID(dlg) == EstablishedDialogID(dlg.callId, dlg.localTag, dlg.remoteTag)

\* One call the transport makes on a handler or on a dialog.
HandlerCall(hdlr) == [op |-> "new_dialog_from_request", handler |-> hdlr, dlg |-> 0]
ConsumeCall(d) == [op |-> "consume_message", handler |-> "", dlg |-> d]

\* A grouping that puts an established dialog in the established map a
\* second time, under its ID with the tags the other way round.
updateDialogGroupingTwice(pds, eds, d, rec) ==
    LET pdid == provisionalDialogID(rec)
        did == dialogID(rec)
        rdid == EstablishedDialogID(rec.callId, rec.remoteTag, rec.localTag)
    IN  IF rec.established
        THEN [pds |-> IF pdid \in DOMAIN pds THEN DictDel(pds, pdid) ELSE pds,
              eds |-> IF did \notin DOMAIN eds
                      THEN DictSet(DictSet(eds, did, d), rdid, d) ELSE eds]
        ELSE [pds |-> IF pdid \notin DOMAIN pds THEN DictSet(pds, pdid, d) ELSE pds,
              eds |-> eds]

\* updateDialogGrouping(dlg): the two maps it leaves, dlg being dialog d
\* with the attributes rec.
updateDialogGrouping(pds, eds, d, rec) ==
    LET pdid == provisionalDialogID(rec)
        did == dialogID(rec)
    IN  IF rec.established
        THEN [pds |-> IF pdid \in DOMAIN pds THEN DictDel(pds, pdid) ELSE pds,
              eds |-> IF did \notin DOMAIN eds THEN DictSet(eds, did, d) ELSE eds]
        ELSE [pds |-> IF pdid \notin DOMAIN pds THEN DictSet(pds, pdid, d) ELSE pds,
              eds |-> eds]

\* An ID computed with the tags in the same order for both directions.
InDialogIDOneOrder(msg) ==
    EstablishedDialogID(msg.callId, msg.toTag, msg.fromTag)

\* The ID consumeInDialogMessage computes for a message.
InDialogID(msg) ==
    IF isresponse(msg)
    THEN EstablishedDialogID(msg.callId, msg.fromTag, msg.toTag)
    ELSE EstablishedDialogID(msg.callId, msg.toTag, msg.fromTag)

\* A lookup that tries the established map only.
InDialogTargetEstablishedOnly(pds, eds, msg) ==
    LET did == InDialogID(msg)
    IN  IF did \in DOMAIN eds THEN eds[did] ELSE 0

\* The dialog consumeInDialogMessage hands a message to: the established
\* dialog under its ID, else the provisional one, else none (0).
InDialogTarget(pds, eds, msg) ==
    LET did == InDialogID(msg)
        pdid == ProvisionalDialogIDFromEstablishedID(did)
    IN  IF did \in DOMAIN eds THEN eds[did]
        ELSE IF pdid \in DOMAIN pds THEN pds[pdid]
        ELSE 0

\* A lookup that takes a registered handler whatever the AOR.
HandlerForAnyAOR(hdlrs, msg) == hdlrs[CHOOSE aor \in DOMAIN hdlrs : TRUE]

\* The handler consumeDialogCreatingMessage calls for a message.
HandlerFor(hdlrs, msg) == hdlrs[msg.toAOR]

\* A routing that lets an ACK through to the To-tag test.
RoutePathAckRouted(msg) ==
    IF msg.fromTag = NoTag THEN "no from tag"
    ELSE IF msg.callId = "" THEN "no call id"
    ELSE IF msg.toTag = NoTag THEN "creating"
    ELSE "in dialog"

\* Which path consumeMessage takes for a message.
RoutePath(msg) ==
    IF msg.type = "ACK" THEN "ack"
    ELSE IF msg.fromTag = NoTag THEN "no from tag"
    ELSE IF msg.callId = "" THEN "no call id"
    ELSE IF msg.toTag = NoTag THEN "creating"
    ELSE "in dialog"

SipIdle == [op |-> "none", msg |-> CHOOSE m \in SipMessages : TRUE,
            calls |-> <<>>, raised |-> "",
            dlg |-> 0, did |-> <<>>]

SIPInit ==
    /\ sptr_dialogHandlers = <<>>
    /\ sptr_provisionalDialogs = <<>>
    /\ sptr_establishedDialogs = <<>>
    /\ nMessages = 0
    /\ dialogs = <<>>
    /\ sip_last = SipIdle
    /\ dm_prev = [chunk |-> <<>>, ret |-> 0, fresh |-> TRUE]
    /\ dm_last = [chunk |-> <<>>, offered |-> <<>>, ret |-> 0, routed |-> FALSE,
                  fresh |-> TRUE]

\* consumeDialogCreatingMessage(msg)
consumeDialogCreatingMessage(msg) ==
    IF msg.toAOR \notin DOMAIN sptr_dialogHandlers
    THEN /\ sip_last' = [op |-> "consume", msg |-> msg, calls |-> <<>>, raised |-> "",
                         dlg |-> 0, did |-> <<>>]
         /\ UNCHANGED <<sptr_provisionalDialogs, sptr_establishedDialogs, dialogs>>
    ELSE LET hdlr == HandlerFor(sptr_dialogHandlers, msg)
         IN  \/ \* the handler does not want the request
                /\ sip_last' = [op |-> "consume", msg |-> msg,
                                calls |-> <<HandlerCall(hdlr)>>, raised |-> "",
                                dlg |-> 0, did |-> <<>>]
                /\ UNCHANGED <<sptr_provisionalDialogs, sptr_establishedDialogs,
                               dialogs>>
             \/ \* the handler returns a new dialog, which consumes the message
                \E est \in BOOLEAN :
                   LET d == Len(dialogs) + 1
                       rec == [callId |-> msg.callId, localTag |-> LocalTag(d),
                               remoteTag |-> msg.fromTag, established |-> est,
                               removed |-> FALSE]
                       maps == updateDialogGrouping(sptr_provisionalDialogs,
                                                    sptr_establishedDialogs, d, rec)
                   IN  /\ Len(dialogs) < MaxDialogs
                       /\ dialogs' = Append(dialogs, rec)
                       /\ sptr_provisionalDialogs' = maps.pds
                       /\ sptr_establishedDialogs' = maps.eds
                       /\ sip_last' = [op |-> "consume", msg |-> msg,
                                       calls |-> <<HandlerCall(hdlr), ConsumeCall(d)>>,
                                       raised |-> "",
                                       dlg |-> 0, did |-> <<>>]

\* An in-dialog path that hands a message no dialog is found for to the
\* dialog-creating path.
consumeInDialogMessageOrCreate(msg) ==
    LET d == InDialogTarget(sptr_provisionalDialogs, sptr_establishedDialogs, msg)
    IN  IF d = 0
        THEN consumeDialogCreatingMessage(msg)
        ELSE /\ sip_last' = [op |-> "consume", msg |-> msg,
                             calls |-> <<ConsumeCall(d)>>, raised |-> "",
                             dlg |-> d, did |-> InDialogID(msg)]
             /\ \E est \in BOOLEAN :
                   dialogs' = [dialogs EXCEPT ![d].established = @ \/ est]
             /\ UNCHANGED <<sptr_provisionalDialogs, sptr_establishedDialogs>>

\* consumeInDialogMessage(msg): the dialog found consumes the message, and
\* may take it as the one that establishes it; no dialog found is `assert 0`.
consumeInDialogMessage(msg) ==
    LET d == InDialogTarget(sptr_provisionalDialogs, sptr_establishedDialogs, msg)
    IN  IF d = 0
        THEN /\ sip_last' = [op |-> "consume", msg |-> msg, calls |-> <<>>,
                             raised |-> "AssertionError",
                             dlg |-> 0, did |-> InDialogID(msg)]
             /\ UNCHANGED <<sptr_provisionalDialogs, sptr_establishedDialogs,
                            dialogs>>
        ELSE /\ sip_last' = [op |-> "consume", msg |-> msg,
                             calls |-> <<ConsumeCall(d)>>, raised |-> "",
                             dlg |-> d, did |-> InDialogID(msg)]
             /\ \E est \in BOOLEAN :
                   dialogs' = [dialogs EXCEPT ![d].established = @ \/ est]
             /\ UNCHANGED <<sptr_provisionalDialogs, sptr_establishedDialogs>>

\* consumeMessage(msg), as it changes the transport
consumeMessage(msg) ==
    /\ nMessages' = nMessages + 1
    /\ UNCHANGED sptr_dialogHandlers
    /\ IF RoutePath(msg) = "creating" THEN consumeDialogCreatingMessage(msg)
       ELSE IF RoutePath(msg) = "in dialog" THEN consumeInDialogMessage(msg)
       ELSE /\ sip_last' = [op |-> "consume", msg |-> msg, calls |-> <<>>,
                            raised |-> "",
                            dlg |-> 0, did |-> <<>>]
            /\ UNCHANGED <<sptr_provisionalDialogs, sptr_establishedDialogs,
                           dialogs>>

\* A parsed message is handed to consumeMessage.
ConsumeMessage(msg) ==
    /\ nMessages < MaxMessages
    /\ consumeMessage(msg)
    /\ UNCHANGED dmVars
    /\ UNCHANGED notSip

\* An addDialogHandlerForAOR that puts the new handler in the place of one
\* that is registered.
AddDialogHandlerReplacing(aor, hdlr) ==
    /\ sip_last' = [op |-> "add handler", msg |-> SipIdle.msg,
                    calls |-> <<>>, raised |-> "",
                    dlg |-> 0, did |-> <<>>]
    /\ sptr_dialogHandlers' = DictSet(sptr_dialogHandlers, aor, hdlr)
    /\ UNCHANGED <<sptr_provisionalDialogs, sptr_establishedDialogs, nMessages,
                   dialogs, dmVars>>
    /\ UNCHANGED notSip

\* addDialogHandlerForAOR(aor, handler)
AddDialogHandlerForAOR(aor, hdlr) ==
    /\ IF aor \in DOMAIN sptr_dialogHandlers
       THEN /\ sip_last' = [op |-> "add handler", msg |-> SipIdle.msg,
                            calls |-> <<>>, raised |-> "KeyError",
                            dlg |-> 0, did |-> <<>>]
            /\ UNCHANGED sptr_dialogHandlers
       ELSE /\ sip_last' = [op |-> "add handler", msg |-> SipIdle.msg,
                            calls |-> <<>>, raised |-> "",
                            dlg |-> 0, did |-> <<>>]
            /\ sptr_dialogHandlers' = DictSet(sptr_dialogHandlers, aor, hdlr)
    /\ UNCHANGED <<sptr_provisionalDialogs, sptr_establishedDialogs, nMessages,
                   dialogs, dmVars>>
    /\ UNCHANGED notSip

\* removeDialogHandlerForAOR(aor)
RemoveDialogHandlerForAOR(aor) ==
    /\ IF aor \notin DOMAIN sptr_dialogHandlers
       THEN /\ sip_last' = [op |-> "remove handler", msg |-> SipIdle.msg,
                            calls |-> <<>>, raised |-> "KeyError",
                            dlg |-> 0, did |-> <<>>]
            /\ UNCHANGED sptr_dialogHandlers
       ELSE /\ sip_last' = [op |-> "remove handler", msg |-> SipIdle.msg,
                            calls |-> <<>>, raised |-> "",
                            dlg |-> 0, did |-> <<>>]
            /\ sptr_dialogHandlers' = DictDel(sptr_dialogHandlers, aor)
    /\ UNCHANGED <<sptr_provisionalDialogs, sptr_establishedDialogs, nMessages,
                   dialogs, dmVars>>
    /\ UNCHANGED notSip

\* updateDialogGrouping(dlg), called by a dialog on its transport
UpdateDialogGrouping(d) ==
    /\ d \in 1..Len(dialogs)
    /\ LET maps == updateDialogGrouping(sptr_provisionalDialogs,
                                        sptr_establishedDialogs, d, dialogs[d])
       IN  /\ sptr_provisionalDialogs' = maps.pds
           /\ sptr_establishedDialogs' = maps.eds
    /\ dialogs' = [dialogs EXCEPT ![d].removed = FALSE]
    /\ sip_last' = [op |-> "update grouping", msg |-> SipIdle.msg,
                    calls |-> <<>>, raised |-> "",
                    dlg |-> d, did |-> <<>>]
    /\ UNCHANGED <<sptr_dialogHandlers, nMessages, dmVars>>
    /\ UNCHANGED notSip

\* A removal that takes out every entry of the dialog's call, whichever
\* dialog the entry refers to.
removeDialogOfCall(pds, eds, rec) ==
    [pds |-> [k \in {i \in DOMAIN pds : i[1] # rec.callId} |-> pds[k]],
     eds |-> [k \in {i \in DOMAIN eds : i[1] # rec.callId} |-> eds[k]]]

\* removeDialog(dlg): the two maps it leaves
removeDialog(pds, eds, rec) ==
    LET pdid == provisionalDialogID(rec)
        did == dialogID(rec)
    IN  [pds |-> IF pdid \in DOMAIN pds THEN DictDel(pds, pdid) ELSE pds,
         eds |-> IF rec.established /\ did \in DOMAIN eds
                 THEN DictDel(eds, did) ELSE eds]

\* removeDialog(dlg), called by a dialog on its transport
RemoveDialog(d) ==
    /\ d \in 1..Len(dialogs)
    /\ LET maps == removeDialog(sptr_provisionalDialogs,
                                sptr_establishedDialogs, dialogs[d])
       IN  /\ sptr_provisionalDialogs' = maps.pds
           /\ sptr_establishedDialogs' = maps.eds
    /\ dialogs' = [dialogs EXCEPT ![d].removed = TRUE]
    /\ sip_last' = [op |-> "remove dialog", msg |-> SipIdle.msg,
                    calls |-> <<>>, raised |-> "",
                    dlg |-> d, did |-> <<>>]
    /\ UNCHANGED <<sptr_dialogHandlers, nMessages, dmVars>>
    /\ UNCHANGED notSip

SIPNext ==
    \/ \E msg \in SipMessages : ConsumeMessage(msg)
    \/ \E aor \in AORs, hdlr \in Handlers : AddDialogHandlerForAOR(aor, hdlr)
    \/ \E aor \in AORs : RemoveDialogHandlerForAOR(aor)
    \/ \E d \in 1..MaxDialogs : UpdateDialogGrouping(d)
    \/ \E d \in 1..MaxDialogs : RemoveDialog(d)


\* ==================================================== bytes read off a socket

\* Received data is a sequence of units: the start line and headers of a
\* message (named by the message's type) and the characters CR and LF.
CR == "\r"
LF == "\n"
eoleol == <<CR, LF, CR, LF>>

\* The start lines and headers that parse: those of the three message types,
\* and a REGISTER that carries no From tag.
Heads == MessageTypes \cup {"REGISTER"}

\* The message whose start line and headers are the unit `head`.
MessageOf(head) ==
    IF head = "REGISTER"
    THEN [type |-> "REGISTER", fromTag |-> NoTag, toTag |-> NoTag,
          callId |-> "c1", toAOR |-> "alice@atlanta.com"]
    ELSE IF head = "200"
    THEN [type |-> "200", fromTag |-> "L1", toTag |-> "r1", callId |-> "c1",
          toAOR |-> "alice@atlanta.com"]
    ELSE [type |-> head, fromTag |-> "r1", toTag |-> NoTag, callId |-> "c1",
          toAOR |-> "alice@atlanta.com"]

\* The bytes of a complete message with no body.
Wire(head) == <<head>> \o eoleol

\* What one recvfrom can return: any run of bytes of a message on the wire.
Chunks ==
    {SubSeq(Wire(head), i, j) : head \in MessageTypes, i \in 1..5, j \in 1..5}
    \ {<<>>}

\* data.find(eoleol): the index of the first terminator, -1 when none
find(data, sub) ==
    LET at == {i \in 1..(Len(data) - Len(sub) + 1) :
                  SubSeq(data, i, i + Len(sub) - 1) = sub}
    IN  IF at = {} THEN -1 ELSE (CHOOSE i \in at : \A k \in at : i <= k) - 1

\* Message.Parse(data): the message at the front of the data and the number
\* of bytes it took, or a ParseError.
Parse(data) ==
    IF Len(data) >= 5 /\ data[1] \in Heads /\ SubSeq(data, 2, 5) = eoleol
    THEN [ok |-> TRUE, msg |-> MessageOf(data[1]), parsedBytes |-> 5]
    ELSE [ok |-> FALSE, msg |-> SipIdle.msg, parsedBytes |-> 0]

\* A byte consumer that reports nothing consumed for a message it parsed and
\* handed on.
sipByteConsumerNoneConsumed(data) ==
    IF find(data, eoleol) = -1 THEN [routed |-> FALSE, ret |-> 0]
    ELSE [routed |-> Parse(data).ok, ret |-> 0]

\* sipByteConsumer(local_addr, remote_addr, data): whether it hands a message
\* to consumeMessage, and the number it returns.
sipByteConsumer(data) ==
    IF find(data, eoleol) = -1 THEN [routed |-> FALSE, ret |-> 0]
    ELSE IF ~Parse(data).ok THEN [routed |-> FALSE, ret |-> 0]
    ELSE [routed |-> TRUE, ret |-> Parse(data).parsedBytes]

\* A proxy that hands over what earlier reads left with the new data behind.
DataForCallbackWithKept(kept, data) == kept \o data

\* The data the socket proxy hands to its data callback when recvfrom has
\* returned `data`: the proxy keeps nothing from earlier reads.
DataForCallback(kept, data) == data

\* SocketProxy._readable_socket_selected with the transport's
\* sipByteConsumer as the data callback.
readable_socket_selected(data) ==
    LET offered == DataForCallback(dm_last.offered, data)
        res == sipByteConsumer(offered)
    IN  /\ nMessages < MaxMessages
        /\ dm_prev' = [chunk |-> dm_last.chunk, ret |-> dm_last.ret,
                       fresh |-> dm_last.fresh]
        /\ dm_last' = [chunk |-> data, offered |-> offered, ret |-> res.ret,
                       routed |-> res.routed,
                       fresh |-> (dm_last.ret = Len(dm_last.offered))]
        /\ IF res.routed
           THEN consumeMessage(Parse(offered).msg)
           ELSE UNCHANGED sipVars

ReadableSocketSelected(data) ==
    /\ readable_socket_selected(data)
    /\ UNCHANGED notSip

DemuxNext ==
    \/ \E data \in Chunks : ReadableSocketSelected(data)
    \/ \E hdlr \in Handlers : AddDialogHandlerForAOR("alice@atlanta.com", hdlr)
    \/ RemoveDialogHandlerForAOR("alice@atlanta.com")


\* ==================================================================== Transport

AF_INET == "AF_INET"
AF_INET6 == "AF_INET6"
\* None, as the value of a flowinfo or scopeid that is not specified
None == -1
SOCK_DGRAM == "SOCK_DGRAM"
NameAll == "NameAll"
SendFromAddressNameAny == "SendFromAddressNameAny"
first_unregistered_port == 49152
last_port == 65535
max_retries == 10

\* The addresses callers ask for.
LoopbackName == "127.0.0.1"
SipPort == 5060
ListenNames == {NameAll, LoopbackName}
ListenPorts == {0, SipPort}
RemoteNames == {"10.0.0.2", "10.0.0.3"}
RemoteNames6 == {"2001:db8::2"}
\* What the operating system does: the local address of a socket connected
\* to a remote, and the ports it gives to a socket bound to port 0.
LocalNameFor(remote_name) ==
    IF remote_name \in RemoteNames6 THEN "2001:db8::1" ELSE "10.0.0.1"
EphemeralPorts == {32768, 32769}

\* One entry of a find tuple: a key and the finder to use when the key is not
\* in the dict.
Lookup(key, finder) == [key |-> key, finder |-> finder]

\* convert_listen_description_into_find_tuple: an AF_INET description has
\* no flowinfo and scopeid levels.
convert_listen_description_into_find_tuple(la) ==
    LET rtup == << Lookup(la.sock_family, "lambda"), Lookup(la.sock_type, "lambda"),
                   Lookup(la.name, "find_suitable_name"),
                   Lookup(la.port, "find_suitable_port") >>
    IN  IF la.sock_family = AF_INET THEN rtup
        ELSE rtup \o << Lookup(la.flowinfo, "find_suitable_flowinfo_or_scopeid"),
                        Lookup(la.scopeid, "find_suitable_flowinfo_or_scopeid") >>

\* A find tuple for a connected address whose local name and port have no
\* finder: only the exact local address asked for matches.
ConnectedFindTupleExactLocal(cad) ==
    << Lookup(cad.sock_family, "lambda"), Lookup(cad.sock_type, "lambda"),
       Lookup(cad.remote_name, "None"), Lookup(cad.remote_port, "None"),
       Lookup(cad.name, "None"), Lookup(cad.port, "None") >>

\* convert_connected_address_description_into_find_tuple
convert_connected_address_description_into_find_tuple(cad) ==
    LET ladtuple == convert_listen_description_into_find_tuple(cad)
    IN  SubSeq(ladtuple, 1, 2)
        \o << Lookup(cad.remote_name, "None"), Lookup(cad.remote_port, "None") >>
        \o SubSeq(ladtuple, 3, Len(ladtuple))

\* What a finder can return for a key that is not in the dict: the family
\* and type finders make an empty dict, find_suitable_name and
\* find_suitable_port take the first item the dict's iteration gives (any
\* item: the order is the dict's own) for the name SendFromAddressNameAny
\* and for the port 0. The result is a set of <<key, object>> pairs.
Finder(cur, lk) ==
    IF lk.finder = "lambda" THEN {<<lk.key, <<>> >>}
    ELSE IF lk.finder = "find_suitable_name" /\ lk.key = SendFromAddressNameAny
    THEN {<<k, cur[k]>> : k \in DOMAIN cur}
    ELSE IF lk.finder = "find_suitable_port" /\ lk.key = 0
    THEN {<<k, cur[k]>> : k \in DOMAIN cur}
    ELSE IF lk.finder = "find_suitable_flowinfo_or_scopeid" /\ lk.key = None
    THEN {<<k, cur[k]>> : k \in DOMAIN cur}
    ELSE {}

\* yield_dict_path(root_dict, lookups): the path of keys it yields, the
\* object at the end of it (0 when the path is not full) and the dict as the
\* walk leaves it (a finder's result is stored in the dict).
RECURSIVE yield_dict_path(_, _)
yield_dict_path(cur, lookups) ==
    LET lk == Head(lookups)
        found == IF lk.key \in DOMAIN cur THEN {<<lk.key, cur[lk.key]>>}
                 ELSE Finder(cur, lk)
    IN  IF found = {} THEN {[path |-> <<>>, obj |-> 0, dict |-> cur]}
        ELSE UNION {
            IF Len(lookups) = 1
            THEN {[path |-> <<f[1]>>, obj |-> f[2], dict |-> DictSet(cur, f[1], f[2])]}
            ELSE {[path |-> <<f[1]>> \o r.path, obj |-> r.obj,
                   dict |-> DictSet(cur, f[1], r.dict)] :
                      r \in yield_dict_path(f[2], Tail(lookups))} : f \in found}

\* find_cached_object(cache_dict, find_tuple): the path, the object found
\* (0 for None) and the dict as the walk leaves it, or what its assert on
\* a path of 7 for a find tuple of 8 raises.
find_cached_object(cache_dict, find_tuple) ==
    {[path |-> r.path, obj |-> r.obj, dict |-> r.dict,
      raised |-> IF Len(r.path) = 7 /\ Len(find_tuple) = 8
                 THEN "AssertionError" ELSE ""] :
        r \in yield_dict_path(cache_dict, find_tuple)}

\* insert_cached_object(root, path, obj)
RECURSIVE insert_cached_object(_, _, _)
insert_cached_object(root, path, obj) ==
    IF Len(path) = 1 THEN DictSet(root, path[1], obj)
    ELSE DictSet(root, path[1],
                 insert_cached_object(IF path[1] \in DOMAIN root
                                      THEN root[path[1]] ELSE <<>>,
                                      Tail(path), obj))

\* del ldict[key] for the last key of a path
RECURSIVE DelAtPath(_, _)
DelAtPath(root, path) ==
    IF Len(path) = 1 THEN DictDel(root, path[1])
    ELSE DictSet(root, path[1], DelAtPath(root[path[1]], Tail(path)))

\* The objects at the leaves of a tree of dicts `depth` levels deep.
RECURSIVE Leaves(_, _)
Leaves(root, depth) ==
    IF depth = 1 THEN {root[k] : k \in DOMAIN root}
    ELSE UNION {Leaves(root[k], depth - 1) : k \in DOMAIN root}

Cached(p) ==
    p \in Leaves(tp_listen_sockets, 4)
          \cup UNION {Leaves(tp_connected_sockets[f], IF f = AF_INET THEN 5 ELSE 7) :
                        f \in DOMAIN tp_connected_sockets}

\* bind() fails for an address an open socket holds, and on every port for
\* a name that is no address of this host.
AddressInUse(name, port) ==
    \/ name = "192.0.2.9"
    \/ \E q \in 1..Len(proxies) :
          /\ proxies[q].closes = 0
          /\ proxies[q].port = port
          /\ (proxies[q].name = name \/ proxies[q].name = "0.0.0.0" \/ name = "0.0.0.0")

\* UnregisteredPortGenerator: the port after `port`
NextUnregisteredPort(port) ==
    IF port + 1 > last_port THEN first_unregistered_port ELSE port + 1

\* A port_filter: None, which lets every port through (all), or a callable
\* that accepts the ports of a set.
NoFilter == [all |-> TRUE, ports |-> {}]
PortFilters ==
    {NoFilter} \cup {[all |-> FALSE, ports |-> ps] :
                        ps \in {{}, {first_unregistered_port + 2}, {last_port}}}

\* One next() of an UnregisteredPortGenerator that took start_port when it
\* began, with the global next_port at `port`: whether it yields, and the
\* next_port it leaves. A generator that has not run yet (fresh) tests
\* `port` itself; one resumed after a yield adds 1, wraps after last_port,
\* stops when it comes to start_port and tests again. The ports the loop
\* passes without a yield are summed up by their distance from `port`.
UnregisteredPortGenerator(start_port, port, fresh, port_filter) ==
    LET n == last_port - first_unregistered_port + 1
        Off(p) == ((p - port - 1) % n) + 1
        cands == IF port_filter.all THEN {NextUnregisteredPort(port)}
                 ELSE port_filter.ports
        ok == {p \in cands : Off(p) < Off(start_port)}
    IN  IF fresh /\ (port_filter.all \/ port \in port_filter.ports)
        THEN [yield |-> TRUE, port |-> port]
        ELSE IF ok = {}
        THEN [yield |-> FALSE, port |-> start_port]
        ELSE [yield |-> TRUE,
              port |-> CHOOSE p \in ok : \A q \in ok : Off(p) <= Off(q)]

\* GetBoundSocket's loop over port_generator() for a request for port 0:
\* whether a socket is returned (ok), whether it is bound and to which port,
\* the ports bind() was tried on and the next_port left. The loop ends on a
\* bind that succeeds, on max_retries failures or when the generator stops;
\* BadNetwork is raised when the last bind failed.
RECURSIVE TryPorts(_, _, _, _, _, _)
TryPorts(name, start_port, port, port_filter, tried, attempts) ==
    LET g == UnregisteredPortGenerator(start_port, port, tried = <<>>, port_filter)
    IN  IF ~g.yield
        THEN [ok |-> attempts = 0, bound |-> FALSE, port |-> 0,
              next_port |-> g.port, tried |-> tried]
        ELSE IF ~AddressInUse(name, g.port)
        THEN [ok |-> TRUE, bound |-> TRUE, port |-> g.port,
              next_port |-> g.port, tried |-> Append(tried, g.port)]
        ELSE IF attempts + 1 = max_retries
        THEN [ok |-> FALSE, bound |-> FALSE, port |-> g.port,
              next_port |-> g.port, tried |-> Append(tried, g.port)]
        ELSE TryPorts(name, start_port, g.port, port_filter,
                      Append(tried, g.port), attempts + 1)

\* GetBoundSocket(family, socktype, address, port_filter)
GetBoundSocket(name, port, port_filter) ==
    IF port # 0
    THEN [ok |-> ~AddressInUse(name, port), bound |-> ~AddressInUse(name, port),
          port |-> port, next_port |-> next_port, tried |-> <<port>>]
    ELSE TryPorts(name, next_port, next_port, port_filter, <<>>, 0)

\* ListenDescription.sockname_tuple: the name to bind
SockName(name) == IF name = NameAll THEN "0.0.0.0" ELSE name

TpIdle == [op |-> "none", raised |-> "", proxy |-> 0, name |-> "", port |-> 0,
           before |-> <<>>]

TpCall(op, raised, proxy) ==
    [op |-> op, raised |-> raised, proxy |-> proxy, name |-> "", port |-> 0,
     before |-> <<>>]

\* A new SocketProxy: its local_address, the count Retainable keeps for it
\* (retain), the number of holds callers have taken and not yet given back
\* (held) and the number of times its socket has been closed (closes).
\* _add_socket_proxy gives the socket of a new proxy to the retry thread's
\* addInputFD (fd_source); no method of the Transport or of the proxy takes
\* it out of the thread's sources again.
NewProxy(name, port, remote_name, remote_port) ==
    [sock_family |-> AF_INET, sock_type |-> SOCK_DGRAM, name |-> name,
     port |-> port, remote_name |-> remote_name, remote_port |-> remote_port,
     flowinfo |-> None, scopeid |-> None,
     retain |-> 1, held |-> 1, closes |-> 0, fd_source |-> TRUE]

\* The keys of a find tuple
Keys(find_tuple) == [i \in 1..Len(find_tuple) |-> find_tuple[i].key]

TransportInit ==
    /\ tp_listen_sockets = <<>>
    /\ tp_connected_sockets = <<>>
    /\ next_port = first_unregistered_port
    /\ proxies = <<>>
    /\ tp_last = TpIdle
    /\ tp_threads = [t \in {1, 2} |-> [pc |-> "idle", remote_name |-> "", path |-> <<>>]]
    /\ gb_last = [name |-> "", port |-> 0, port_filter |-> NoFilter, start_port |-> 0,
                  raised |-> "", bound |-> FALSE, bound_port |-> 0, tried |-> <<>>]
    /\ gens = [g \in {1, 2} |-> [pc |-> "none", start_port |-> 0,
                                  port_filter |-> NoFilter, yielded |-> <<>>,
                                  runs |-> 0]]

\* listen_for_me(callback, name=name, port=port)
ListenForMe(name, port) ==
    /\ LET provisional_laddr == [sock_family |-> AF_INET, sock_type |-> SOCK_DGRAM,
                                 name |-> name, port |-> port]
           tpl == convert_listen_description_into_find_tuple(provisional_laddr)
           call == [op |-> "listen", raised |-> "", proxy |-> 0, name |-> name,
                    port |-> port, before |-> tp_listen_sockets]
       IN  \E r \in find_cached_object(tp_listen_sockets, tpl) :
              IF r.obj # 0
              THEN /\ tp_last' = [call EXCEPT !.raised = "SocketInUseError",
                                              !.proxy = r.obj]
                   /\ tp_listen_sockets' = r.dict
                   /\ UNCHANGED <<tp_connected_sockets, next_port, proxies>>
              ELSE LET bound == GetBoundSocket(SockName(name), port, NoFilter)
                       lsck == Len(proxies) + 1
                       laddr == NewProxy(SockName(name), bound.port, "", 0)
                   IN  IF ~bound.ok
                       THEN /\ tp_last' = [call EXCEPT !.raised = "BadNetwork"]
                            /\ tp_listen_sockets' = r.dict
                            /\ next_port' = bound.next_port
                            /\ UNCHANGED <<tp_connected_sockets, proxies>>
                       ELSE /\ Len(proxies) < MaxProxies
                            /\ proxies' = Append(proxies, laddr)
                            /\ next_port' = bound.next_port
                            /\ tp_listen_sockets' =
                                  insert_cached_object(
                                      r.dict,
                                      Keys(convert_listen_description_into_find_tuple(laddr)),
                                      lsck)
                            /\ tp_last' = [call EXCEPT !.proxy = lsck]
                            /\ UNCHANGED tp_connected_sockets
    /\ UNCHANGED <<tp_threads, gb_last>>
    /\ UNCHANGED notTp

\* find_or_create_send_from_socket(cad): what it raises, the proxy it
\* returns (sck) and the proxies and the connected cache it leaves. A cached
\* proxy is retained; else a socket is connected, from a port the system
\* chooses, and its proxy, whose local_address is read off the socket, is
\* retained and cached.
find_or_create_send_from_socket(cad) ==
    LET tpl == convert_connected_address_description_into_find_tuple(cad)
    IN  UNION {
          IF r.raised # ""
          THEN {[raised |-> r.raised, sck |-> 0, proxies |-> proxies,
                 connected |-> r.dict]}
          ELSE IF r.obj # 0
          THEN IF proxies[r.obj].retain < MaxRetains
               THEN {[raised |-> "", sck |-> r.obj,
                      proxies |-> [proxies EXCEPT ![r.obj].retain = @ + 1,
                                                  ![r.obj].held = @ + 1],
                      connected |-> r.dict]}
               ELSE {}
          ELSE {LET sck == Len(proxies) + 1
                    inet == cad.sock_family = AF_INET
                    local_address ==
                        [NewProxy(LocalNameFor(cad.remote_name), port,
                                  cad.remote_name, cad.remote_port)
                            EXCEPT !.sock_family = cad.sock_family,
                                   !.flowinfo = IF inet THEN None ELSE 0,
                                   !.scopeid = IF inet THEN None
                                               ELSE IF cad.scopeid = None THEN 0
                                               ELSE cad.scopeid]
                    keys == Keys(convert_connected_address_description_into_find_tuple(
                                     local_address))
                IN  [raised |-> "", sck |-> sck,
                     proxies |-> Append(proxies, local_address),
                     connected |-> insert_cached_object(
                                       r.dict,
                                       r.path \o SubSeq(keys, Len(r.path) + 1, Len(keys)),
                                       sck)] :
                   port \in {pt \in EphemeralPorts :
                               /\ Len(proxies) < MaxProxies
                               /\ ~AddressInUse(LocalNameFor(cad.remote_name), pt)}}
          : r \in find_cached_object(tp_connected_sockets, tpl)}

\* get_send_from_address(remote_name=remote_name, remote_port=remote_port),
\* with the local name (SendFromAddressNameAny), the port (0), flowinfo and
\* scopeid (None) left to default.
get_send_from_address(remote_name, remote_port) ==
    find_or_create_send_from_socket(
        [sock_family |-> AF_INET, sock_type |-> SOCK_DGRAM,
         name |-> SendFromAddressNameAny, port |-> 0,
         flowinfo |-> None, scopeid |-> None,
         remote_name |-> remote_name, remote_port |-> remote_port])

\* get_send_from_address(remote_name=remote_name, remote_port=remote_port,
\* scopeid=scopeid) for an IPv6 remote.
GetSendFromAddressScoped(remote_name, remote_port, scopeid) ==
    /\ \E got \in find_or_create_send_from_socket(
                      [sock_family |-> AF_INET6, sock_type |-> SOCK_DGRAM,
                       name |-> SendFromAddressNameAny, port |-> 0,
                       flowinfo |-> None, scopeid |-> scopeid,
                       remote_name |-> remote_name, remote_port |-> remote_port]) :
          /\ proxies' = got.proxies
          /\ tp_connected_sockets' = got.connected
          /\ tp_last' = [TpCall("send from", got.raised, got.sck) EXCEPT
                            !.name = remote_name, !.port = remote_port]
    /\ UNCHANGED <<tp_listen_sockets, next_port>>
    /\ UNCHANGED <<tp_threads, gb_last>>
    /\ UNCHANGED notTp

GetSendFromAddress(remote_name, remote_port) ==
    /\ \E got \in get_send_from_address(remote_name, remote_port) :
          /\ proxies' = got.proxies
          /\ tp_connected_sockets' = got.connected
          /\ tp_last' = [TpCall("send from", "", got.sck) EXCEPT
                            !.name = remote_name, !.port = remote_port]
    /\ UNCHANGED <<tp_listen_sockets, next_port>>
    /\ UNCHANGED <<tp_threads, gb_last>>
    /\ UNCHANGED notTp

\* release_listen_address(listen_address) on the listen cache `cache` and
\* the proxies `prox`: what it raises, the cache and the proxies it leaves.
release_listen_address(cache, prox, listen_address) ==
    LET tpl == convert_listen_description_into_find_tuple(listen_address)
    IN  {IF r.obj = 0
         THEN [raised |-> "KeyError", cache |-> r.dict, proxies |-> prox]
         ELSE IF prox[r.obj].retain - 1 > 0
         THEN [raised |-> "", cache |-> r.dict,
               proxies |-> [prox EXCEPT ![r.obj].retain = @ - 1]]
         ELSE [raised |-> "", cache |-> DelAtPath(r.dict, r.path),
               proxies |-> [prox EXCEPT ![r.obj].retain = @ - 1,
                                        ![r.obj].closes = @ + 1]]
         : r \in find_cached_object(cache, tpl)}

\* release_listen_address(listen_address), the address being the
\* local_address of proxy p, by a caller that holds p
ReleaseListenAddress(p) ==
    /\ p \in 1..Len(proxies)
    /\ proxies[p].held > 0
    /\ \E rel \in release_listen_address(
                      tp_listen_sockets,
                      [proxies EXCEPT ![p].held = @ - 1], proxies[p]) :
          /\ tp_last' = TpCall("release", rel.raised, p)
          /\ tp_listen_sockets' = rel.cache
          /\ proxies' = rel.proxies
    /\ UNCHANGED <<tp_connected_sockets, next_port>>
    /\ UNCHANGED <<tp_threads, gb_last>>
    /\ UNCHANGED notTp

\* release_listen_address(listen_address) for a description a caller makes
\* up itself, with the name and port it chooses.
ReleaseListenDescription(name, port) ==
    /\ \E rel \in release_listen_address(
                      tp_listen_sockets, proxies,
                      [sock_family |-> AF_INET, sock_type |-> SOCK_DGRAM,
                       name |-> name, port |-> port]) :
          /\ tp_last' = [op |-> "release description", raised |-> rel.raised,
                         proxy |-> 0, name |-> name, port |-> port,
                         before |-> <<proxies, tp_listen_sockets>>]
          /\ tp_listen_sockets' = rel.cache
          /\ proxies' = rel.proxies
    /\ UNCHANGED <<tp_connected_sockets, next_port>>
    /\ UNCHANGED <<tp_threads, gb_last>>
    /\ UNCHANGED notTp

\* SIPTransport.send_message(msg, name, port): the send-from address is
\* got for the remote, then the message is serialised and sent; bytes(msg)
\* of a message that is not complete raises Incomplete, on which the
\* address is released and the exception raised again. The exception the
\* caller sees is the one release_listen_address raises, if it raises.
SendMessage(remote_name, remote_port, complete) ==
    /\ \E got \in get_send_from_address(remote_name, remote_port) :
          LET call == [op |-> "send", raised |-> "", proxy |-> got.sck,
                       name |-> remote_name, port |-> remote_port,
                       before |-> proxies]
          IN  IF complete
              THEN /\ proxies' = got.proxies
                   /\ tp_connected_sockets' = got.connected
                   /\ tp_last' = call
                   /\ UNCHANGED tp_listen_sockets
              ELSE \E rel \in release_listen_address(
                                  tp_listen_sockets,
                                  [got.proxies EXCEPT ![got.sck].held = @ - 1],
                                  got.proxies[got.sck]) :
                      /\ proxies' = rel.proxies
                      /\ tp_connected_sockets' = got.connected
                      /\ tp_listen_sockets' = rel.cache
                      /\ tp_last' = [call EXCEPT !.raised =
                                        IF rel.raised = "" THEN "Incomplete"
                                        ELSE rel.raised]
    /\ UNCHANGED next_port
    /\ UNCHANGED <<tp_threads, gb_last>>
    /\ UNCHANGED notTp

\* find_send_from_socket(cad) as one thread's step of
\* find_or_create_send_from_socket for a remote: a cached proxy is retained
\* and returned; with none the thread goes on to connect one, holding the
\* path it found.
FindSendFromSocket(t, remote_name) ==
    /\ tp_threads[t].pc = "idle"
    /\ LET cad == [sock_family |-> AF_INET, sock_type |-> SOCK_DGRAM,
                   name |-> SendFromAddressNameAny, port |-> 0,
                   flowinfo |-> None, scopeid |-> None,
                   remote_name |-> remote_name, remote_port |-> SipPort]
           tpl == convert_connected_address_description_into_find_tuple(cad)
       IN  \E r \in find_cached_object(tp_connected_sockets, tpl) :
              /\ tp_connected_sockets' = r.dict
              /\ IF r.obj # 0
                 THEN /\ proxies[r.obj].retain < MaxRetains
                      /\ proxies' = [proxies EXCEPT ![r.obj].retain = @ + 1,
                                                    ![r.obj].held = @ + 1]
                      /\ tp_last' = [TpCall("send from", "", r.obj) EXCEPT
                                        !.name = remote_name, !.port = SipPort]
                      /\ UNCHANGED tp_threads
                 ELSE /\ tp_threads' = [tp_threads EXCEPT ![t] =
                                           [pc |-> "connect", remote_name |-> remote_name,
                                            path |-> r.path]]
                      /\ UNCHANGED <<proxies, tp_last>>
    /\ UNCHANGED <<tp_listen_sockets, next_port, gb_last>>
    /\ UNCHANGED notTp

\* The rest of find_or_create_send_from_socket in a thread that found no
\* proxy: cad.connect(), then add_connected_socket_proxy(sck, path=path).
ConnectAndAdd(t) ==
    /\ tp_threads[t].pc = "connect"
    /\ Len(proxies) < MaxProxies
    /\ LET remote_name == tp_threads[t].remote_name
           path == tp_threads[t].path
           sck == Len(proxies) + 1
       IN  \E port \in {pt \in EphemeralPorts :
                            ~AddressInUse(LocalNameFor(remote_name), pt)} :
              LET local_address == NewProxy(LocalNameFor(remote_name), port,
                                            remote_name, SipPort)
                  keys == Keys(convert_connected_address_description_into_find_tuple(
                                   local_address))
              IN  /\ proxies' = Append(proxies, local_address)
                  /\ tp_connected_sockets' =
                        insert_cached_object(
                            tp_connected_sockets,
                            path \o SubSeq(keys, Len(path) + 1, Len(keys)), sck)
                  /\ tp_last' = [TpCall("send from", "", sck) EXCEPT
                                    !.name = remote_name, !.port = SipPort]
    /\ tp_threads' = [tp_threads EXCEPT ![t] =
                         [pc |-> "idle", remote_name |-> "", path |-> <<>>]]
    /\ UNCHANGED <<tp_listen_sockets, next_port, gb_last>>
    /\ UNCHANGED notTp

\* GetBoundSocket(AF_INET, SOCK_DGRAM, (name, port), port_filter) called by
\* itself, by a caller that closes the socket it gets.
BindSocket(name, port, port_filter) ==
    /\ next_port < first_unregistered_port + MaxPortDrift
    /\ LET bound == GetBoundSocket(name, port, port_filter)
       IN  /\ next_port' = bound.next_port
           /\ gb_last' = [name |-> name, port |-> port, port_filter |-> port_filter,
                          start_port |-> next_port,
                          raised |-> IF bound.ok THEN "" ELSE "BadNetwork",
                          bound |-> bound.bound, bound_port |-> bound.port,
                          tried |-> bound.tried]
    /\ UNCHANGED <<tp_listen_sockets, tp_connected_sockets, proxies, tp_last,
                   tp_threads>>
    /\ UNCHANGED notTp

\* A caller makes an UnregisteredPortGenerator(port_filter), dropping the
\* one it had, and takes its first port: start_port = next_port, then the
\* loop up to the first yield or to the end.
PortGeneratorStart(g, port_filter) ==
    /\ gens[g].runs < MaxRuns
    /\ LET r == UnregisteredPortGenerator(next_port, next_port, TRUE, port_filter)
       IN  /\ next_port' = r.port
           /\ gens' = [gens EXCEPT ![g] =
                         [pc |-> IF r.yield THEN "yield" ELSE "done",
                          start_port |-> next_port, port_filter |-> port_filter,
                          yielded |-> IF r.yield THEN <<r.port>> ELSE <<>>,
                          runs |-> gens[g].runs + 1]]
    /\ UNCHANGED <<tp_listen_sockets, tp_connected_sockets, proxies, tp_last,
                   tp_threads, gb_last>>
    /\ UNCHANGED <<rtVars, tmVars, sipVars, dmVars>>

\* The caller takes the next port of a generator suspended at its yield.
PortGeneratorNext(g) ==
    /\ gens[g].pc = "yield"
    /\ Len(gens[g].yielded) < MaxYields
    /\ LET r == UnregisteredPortGenerator(gens[g].start_port, next_port, FALSE,
                                          gens[g].port_filter)
       IN  /\ next_port' = r.port
           /\ gens' = [gens EXCEPT
                         ![g].pc = IF r.yield THEN "yield" ELSE "done",
                         ![g].yielded = IF r.yield THEN Append(@, r.port) ELSE @]
    /\ UNCHANGED <<tp_listen_sockets, tp_connected_sockets, proxies, tp_last,
                   tp_threads, gb_last>>
    /\ UNCHANGED <<rtVars, tmVars, sipVars, dmVars>>

\* _readable_socket_selected of the listen proxy p, which is not connected,
\* for a datagram from remote_name: a connected SocketProxy that shares p's
\* socket is made for the remote address and given to
\* add_connected_socket_proxy, which retains it and inserts it in the
\* connected cache under the keys of its address. It has no socket of its
\* own, so it is no source of the retry thread, and no caller holds it.
AddConnectedSocketProxy(p, remote_name) ==
    /\ p \in 1..Len(proxies)
    /\ proxies[p].remote_name = ""
    /\ proxies[p].closes = 0
    /\ Len(proxies) < MaxProxies
    /\ LET csp == [NewProxy(proxies[p].name, proxies[p].port, remote_name, SipPort)
                      EXCEPT !.held = 0, !.fd_source = FALSE]
           tpl == convert_connected_address_description_into_find_tuple(csp)
       IN  /\ proxies' = Append(proxies, csp)
           /\ tp_connected_sockets' =
                 insert_cached_object(tp_connected_sockets, Keys(tpl),
                                      Len(proxies) + 1)
           /\ tp_last' = [TpCall("datagram", "", Len(proxies) + 1) EXCEPT
                             !.name = remote_name, !.port = SipPort]
    /\ UNCHANGED <<tp_listen_sockets, next_port, tp_threads, gb_last>>
    /\ UNCHANGED notTp

TransportNext ==
    \/ \E name \in ListenNames, port \in ListenPorts : ListenForMe(name, port)
    \/ \E remote_name \in RemoteNames : GetSendFromAddress(remote_name, SipPort)
    \/ \E p \in 1..MaxProxies : ReleaseListenAddress(p)

\* The Transport called from two threads at once: each call of
\* listen_for_me and release_listen_address runs on its own, a
\* get_send_from_address may also be overtaken between its lookup and its
\* connect.
ThreadsNext ==
    \/ TransportNext
    \/ \E t \in {1, 2}, remote_name \in RemoteNames : FindSendFromSocket(t, remote_name)
    \/ \E t \in {1, 2} : ConnectAndAdd(t)

\* Sockets bound through listen_for_me and through GetBoundSocket by itself,
\* to names of this host and to a name that is none of its addresses.
BindNext ==
    \/ \E name \in ListenNames, port \in ListenPorts : ListenForMe(name, port)
    \/ \E p \in 1..MaxProxies : ReleaseListenAddress(p)
    \/ \E name \in {LoopbackName, "192.0.2.9"}, port \in ListenPorts,
          port_filter \in PortFilters : BindSocket(name, port, port_filter)

\* Two callers that each iterate generators of their own over the one
\* global next_port.
PortsNext ==
    \/ \E g \in {1, 2}, port_filter \in PortFilters : PortGeneratorStart(g, port_filter)
    \/ \E g \in {1, 2} : PortGeneratorNext(g)

\* Listen sockets that receive datagrams, and callers that ask for a
\* socket to send to the remotes from.
DatagramNext ==
    \/ \E name \in ListenNames, port \in ListenPorts : ListenForMe(name, port)
    \/ \E remote_name \in RemoteNames : GetSendFromAddress(remote_name, SipPort)
    \/ \E p \in 1..MaxProxies, remote_name \in RemoteNames :
          AddConnectedSocketProxy(p, remote_name)

\* The Transport as SIPTransport's sender interface uses it.
SenderNext ==
    \/ TransportNext
    \/ \E remote_name \in RemoteNames, complete \in BOOLEAN :
           SendMessage(remote_name, SipPort, complete)
    \/ \E name \in ListenNames, port \in ListenPorts :
           ReleaseListenDescription(SockName(name), port)
    \/ \E remote_name \in RemoteNames6, scopeid \in {None, 3} :
           GetSendFromAddressScoped(remote_name, SipPort, scopeid)

\* ===================================== the loop reading a SIP socket's data

\* The exceptions of the model that are subclasses of Exception.
ExceptionSubclasses == {"AssertionError", "KeyError", "AttributeError", "TypeError"}

\* A byte consumer that lets every exception of consumeMessage through.
consume_escapes_all(exc) == exc

\* sipByteConsumer's `except Exception` around consumeMessage: the exception
\* it lets through to its caller ("" for none).
consume_escapes(exc) == IF exc \in ExceptionSubclasses THEN "" ELSE exc

\* What arrives on the SIP socket: a terminator with nothing before it, a
\* dialog-creating INVITE, a response that belongs to no dialog unless one
\* was made for it, and a REGISTER with no From tag.
ReactorData == {eoleol} \cup {Wire(head) : head \in {"INVITE", "200", "REGISTER"}}

\* select() returns with nothing to read on the SIP socket.
LoopSelectQuiet ==
    /\ SockFD \notin Readable(rt_rsrcs)
    /\ LoopSelect

\* select() returns with the SIP socket readable: the source's action, the
\* proxy's _readable_socket_selected, reads `data` and gives it to
\* sipByteConsumer. run() has no handler for an exception of the action: one
\* that gets as far as run() ends the thread.
LoopSelectData(data) ==
    /\ SockFD \in Readable(rt_rsrcs)
    /\ readable_socket_selected(data)
    /\ select_returns
    /\ rt_pc' = IF dm_last'.routed /\ consume_escapes(sip_last'.raised) # ""
                THEN "crashed" ELSE "check"
    /\ UNCHANGED <<tmVars, tpVars, gens>>

ReactorNext ==
    \/ LoopTop
    \/ LoopSelectQuiet
    \/ \E data \in ReactorData : LoopSelectData(data)
    \/ LoopCheck
    \/ LoopClock
    \/ LoopFire
    \/ LoopRemove
    \/ (nAddCalls = 0 /\ AddRetryTime(1))
    \/ AddSend
    \/ AddNewInputFD(SockFD)
    \/ FdData(SockFD)
    \/ Tick
    \/ AddDialogHandlerForAOR("alice@atlanta.com", "h1")

Init == RetryInit /\ TMInit /\ SIPInit /\ TransportInit

SpecRetry == Init /\ [][RetryNext]_vars

\* The thread running run() is scheduled, and a thread inside addRetryTime or
\* cancel goes on to its send.
SpecRetryFair ==
    /\ Init
    /\ [][RetryNext]_vars
    /\ WF_vars(LoopStep)
    /\ WF_vars(AddSend)
    /\ WF_vars(CancelSend)

\* The loop and the threads that give it deadlines and descriptors, for as
\* long as nobody cancels it.
UncancelledNext ==
    \/ LoopStep
    \/ \E ctime \in 1..MaxDeadline : AddRetryTime(ctime)
    \/ AddSend
    \/ \E fd \in FDs : AddNewInputFD(fd)
    \/ \E fd \in FDs : FdData(fd)
    \/ Tick

SpecUncancelledFair ==
    /\ Init
    /\ [][UncancelledNext]_vars
    /\ WF_vars(LoopStep)
    /\ WF_vars(AddSend)

\* The loop with one deadline, and the threads that register descriptors
\* with it, whether or not the descriptor is registered already.
SourcesNext ==
    \/ LoopStep
    \/ (nAddCalls = 0 /\ AddRetryTime(1))
    \/ AddSend
    \/ \E fd \in FDs, action \in Actions : AddInputFD(fd, action)
    \/ \E fd \in FDs : FdData(fd)
    \/ Tick

SpecSources == Init /\ [][SourcesNext]_vars

SpecThreads == Init /\ [][ThreadsNext]_vars

SpecBind == Init /\ [][BindNext]_vars

SpecPorts == Init /\ [][PortsNext]_vars

SpecDatagram == Init /\ [][DatagramNext]_vars

SpecTM == Init /\ [][TMNext]_vars

SpecSIP == Init /\ [][SIPNext]_vars

SpecDemux == Init /\ [][DemuxNext]_vars

SpecTransport == Init /\ [][TransportNext]_vars

SpecSender == Init /\ [][SenderNext]_vars

SpecReactor == Init /\ [][ReactorNext]_vars

\* ================================================================== claims

Range(seq) == {seq[i] : i \in 1..Len(seq)}

\* ---- C1
\* Every firing is paired with one consumed entry of the list, the list holds
\* each pending deadline once, and every deadline inserted is either pending
\* or consumed.
C1_Counts ==
    /\ nFired = nConsumed + (IF rt_pc = "remove" THEN 1 ELSE 0)
    /\ nInserted = nConsumed + Len(rthr_retryTimes)
    /\ \A i, j \in 1..Len(rthr_retryTimes) :
           i # j => rthr_retryTimes[i] # rthr_retryTimes[j]

\* A call of addRetryTime leaves its time pending, adds an entry and wakes
\* the loop only when the time was not pending; the action is invoked only for
\* a deadline that is due; the entry consumed after a firing is below every
\* entry left pending.
C1_Step ==
    /\ nAddCalls' = nAddCalls + 1 =>
          /\ Range(rthr_retryTimes') = Range(rthr_retryTimes) \cup {lastAdded'}
          /\ lastAdded' \in Range(rthr_retryTimes) =>
                /\ rthr_retryTimes' = rthr_retryTimes
                /\ nInserted' = nInserted
                /\ add_pc' = "idle"
    /\ nFired' = nFired + 1 => rt_next <= rt_now
    /\ nConsumed' = nConsumed + 1 =>
          \A i \in 1..Len(rthr_retryTimes') :
              rthr_retryTimes[1] < rthr_retryTimes'[i]

\* C1: for every sequence of addRetryTime calls the action fires once per
\* distinct pending deadline, the deadlines are consumed in non-decreasing
\* order, and adding a deadline equal to a pending one adds no firing.
C1_OncePerDeadlineInOrder == [](C1_Counts) /\ [][C1_Step]_vars

\* C1 witness: three calls, one of them for a time already pending, and both
\* distinct deadlines have fired and been consumed.
C1_Witness ==
    /\ nAddCalls = 3
    /\ nInserted = 2
    /\ nFired = 2
    /\ nConsumed = 2
    /\ rthr_retryTimes = <<>>

\* ---- C9
\* C9: under every interleaving, the entry the loop removes after invoking the
\* action is the entry it found due.
C9_RemovedIsFoundDue ==
    rt_pc = "remove" =>
        /\ Len(rthr_retryTimes) > 0
        /\ rthr_retryTimes[1] = rt_next

\* ---- C10
\* C10: once cancel() has been called the loop exits, and it returns from
\* select() at most once after the call has completed.
C10_CancelExits ==
    /\ rthr_cancelled ~> (rt_pc = "exited")
    /\ [](wakesSinceCancel <= 1)

\* C10 witness: cancel() was called twice, with a deadline pending and a
\* second descriptor registered, the loop woke once after it and has exited.
C10_Witness ==
    /\ rt_pc = "exited"
    /\ nCancel = 2
    /\ Len(rthr_retryTimes) > 0
    /\ SockFD \in DOMAIN rthr_fdSources
    /\ wakesSinceCancel = 1

\* ---- C5
\* C5: transaction_for_outbound_message given a 2xx response to an INVITE
\* with no server transaction registered returns a OneShotTransaction and
\* leaves the transactions table as it was, the one-shot not in it.
C5_OneShotFor2xx ==
    (/\ tm_last.op = "outbound"
     /\ ~tm_last.msg.isrequest
     /\ 200 <= tm_last.msg.code /\ tm_last.msg.code < 300
     /\ tm_last.msg.reqtype = "INVITE"
     /\ transaction_key_for_message("server", tm_last.msg)
            \notin DOMAIN tm_last.before)
    => /\ tm_last.result = Return("OneShotTransaction")
       /\ transactions = tm_last.before

\* ---- C6
\* C6: transaction_for_outbound_message given a request returns a new client
\* transaction of the method's variant, registered under
\* (client, Via branch, CSeq method).
C6_ClientTransactionForRequest ==
    (tm_last.op = "outbound" /\ tm_last.msg.isrequest)
    => LET tk == transaction_key_for_message("client", tm_last.msg)
           variant == IF tm_last.msg.method = "INVITE"
                      THEN "InviteClientTransaction"
                      ELSE "NonInviteClientTransaction"
       IN  /\ tm_last.result = Return(variant)
           /\ tk \in DOMAIN transactions
           /\ transactions[tk] = variant

\* The dialog objects the transport holds in its two maps under their own IDs.
Registered(d) ==
    \/ /\ provisionalDialogID(dialogs[d]) \in DOMAIN sptr_provisionalDialogs
       /\ sptr_provisionalDialogs[provisionalDialogID(dialogs[d])] = d
    \/ /\ dialogID(dialogs[d]) \in DOMAIN sptr_establishedDialogs
       /\ sptr_establishedDialogs[dialogID(dialogs[d])] = d

\* A step in which consumeMessage has taken a message (the message is
\* sip_last'.msg).
ConsumeStep == nMessages' = nMessages + 1

\* What the dialog-creating path does in a consumeMessage step: with a
\* handler registered for the To AOR, one call of new_dialog_from_request on
\* that handler and, when it returns a dialog, one consume_message on that
\* (new) dialog; with none, no call at all and no dialog.
CreatingOutcome ==
    LET msg == sip_last'.msg
        calls == sip_last'.calls
    IN  IF msg.toAOR \in DOMAIN sptr_dialogHandlers
        THEN LET hdlr == sptr_dialogHandlers[msg.toAOR]
             IN  \/ /\ calls = <<HandlerCall(hdlr)>>
                    /\ dialogs' = dialogs
                 \/ /\ calls = <<HandlerCall(hdlr), ConsumeCall(Len(dialogs'))>>
                    /\ Len(dialogs') = Len(dialogs) + 1
        ELSE /\ calls = <<>>
             /\ dialogs' = dialogs
             /\ sptr_provisionalDialogs' = sptr_provisionalDialogs
             /\ sptr_establishedDialogs' = sptr_establishedDialogs

\* C3 as stated: every message with no To tag takes the dialog-creating path.
\* (An ACK, a message with no From tag and a message with no Call-ID are
\* dropped before the handler lookup, siptransport.py:249-260.)
C3_NoToTagCallsHandlerOnce ==
    [][(ConsumeStep /\ sip_last'.msg.toTag = NoTag) => CreatingOutcome]_vars

\* C3, amended: a message with no To tag that is not an ACK and carries a From
\* tag and a non-empty Call-ID causes exactly one new_dialog_from_request, on
\* the handler registered for its To AOR, and a dialog that handler returns
\* consumes the message exactly once; with no handler registered for the AOR
\* nothing is called and the message is dropped.
C3_DialogCreatingCallsHandlerOnce ==
    [][(ConsumeStep /\ sip_last'.msg.toTag = NoTag
                    /\ sip_last'.msg.type # "ACK"
                    /\ sip_last'.msg.fromTag # NoTag
                    /\ sip_last'.msg.callId # "") => CreatingOutcome]_vars

\* Two AORs are registered with different handlers and the request for the
\* second was answered by its handler with a dialog, which consumed it.
C3_Witness ==
    /\ DOMAIN sptr_dialogHandlers = AORs
    /\ sptr_dialogHandlers["alice@atlanta.com"] = "h1"
    /\ sptr_dialogHandlers["bob@biloxi.com"] = "h2"
    /\ sip_last.msg.toAOR = "bob@biloxi.com"
    /\ sip_last.calls = <<HandlerCall("h2"), ConsumeCall(1)>>

\* What C4 asks of a consumeMessage step for a message that carries the ID
\* of dialog d: d consumes it, once; no handler is called, no dialog is made.
DeliveredTo(d) ==
    /\ sip_last'.calls = <<ConsumeCall(d)>>
    /\ Len(dialogs') = Len(dialogs)

\* C4 as stated: every later message carrying the Call-ID and tag pair of a
\* dialog that a dialog-creating request produced is delivered to that dialog.
\* (An in-dialog ACK is dropped by consumeMessage, siptransport.py:249-250.)
C4_InDialogToSameDialog ==
    [][\A d \in 1..Len(dialogs) :
          (ConsumeStep /\ ~dialogs[d].removed
                       /\ InDialogID(sip_last'.msg) = dialogID(dialogs[d]))
          => DeliveredTo(d)]_vars

\* C4, amended: every later request other than an ACK, and every later
\* response, that carries the Call-ID and tag pair of a dialog produced by a
\* dialog-creating request (and not since removed from the transport) is
\* delivered to that same dialog, found through the dialog maps; no AOR
\* handler is consulted and no new dialog is created.
C4_NonAckInDialogToSameDialog ==
    [][\A d \in 1..Len(dialogs) :
          (ConsumeStep /\ ~dialogs[d].removed
                       /\ sip_last'.msg.type # "ACK"
                       /\ InDialogID(sip_last'.msg) = dialogID(dialogs[d]))
          => DeliveredTo(d)]_vars

\* Two dialogs exist, and a request carrying the second one's Call-ID and
\* tags has just been consumed by the second.
C4_Witness ==
    /\ Len(dialogs) = 2
    /\ sip_last.msg.type = "INVITE"
    /\ InDialogID(sip_last.msg) = dialogID(dialogs[2])
    /\ sip_last.calls = <<ConsumeCall(2)>>

\* A dialog the transport has been given, and that has not been removed, is
\* in one of the two maps under its own ID.
DialogsAreRegistered ==
    \A d \in 1..Len(dialogs) : ~dialogs[d].removed => Registered(d)

\* C7: when a complete message arrives as two chunks, the first without the
\* CRLF CRLF terminator, the first chunk gives 0 bytes consumed and is kept,
\* and the second is offered behind it, so that the whole message is parsed
\* and routed and the two reads together consume what one read of the whole
\* message consumes.
C7_TwoChunksAsOne ==
    \A head \in MessageTypes :
        (/\ dm_prev.fresh
         /\ dm_prev.chunk # <<>>
         /\ find(dm_prev.chunk, eoleol) = -1
         /\ dm_prev.chunk \o dm_last.chunk = Wire(head))
        => /\ dm_prev.ret = 0
           /\ dm_last.offered = Wire(head)
           /\ dm_last.routed
           /\ dm_prev.ret + dm_last.ret = sipByteConsumer(Wire(head)).ret

\* C2: a socket proxy stays in the Transport's cache, open, for as long as a
\* hold on it is outstanding, and is removed from the cache and closed, once,
\* when the last hold is released: of N holds on one send-from socket the
\* first N-1 releases leave it cached and open and the N-th destroys it.
C2_ReleasedExactlyAtZero ==
    \A p \in 1..Len(proxies) :
        IF proxies[p].held > 0
        THEN Cached(p) /\ proxies[p].closes = 0 /\ proxies[p].retain = proxies[p].held
        ELSE ~Cached(p) /\ proxies[p].closes = 1 /\ proxies[p].retain = 0

\* The part of C2 that the code keeps: the same, for listen sockets only.
ListenSocketsReleasedAtZero ==
    \A p \in 1..Len(proxies) :
        proxies[p].remote_name = "" =>
            IF proxies[p].held > 0
            THEN Cached(p) /\ proxies[p].closes = 0 /\ proxies[p].retain = 1
            ELSE ~Cached(p) /\ proxies[p].closes = 1 /\ proxies[p].retain = 0

\* The listen cache holds a socket under exactly the requested family, type,
\* name and port, none of them a wildcard.
ExactListenMatch(cache, name, port) ==
    /\ port # 0
    /\ name \notin {NameAll, SendFromAddressNameAny}
    /\ AF_INET \in DOMAIN cache
    /\ SOCK_DGRAM \in DOMAIN cache[AF_INET]
    /\ name \in DOMAIN cache[AF_INET][SOCK_DGRAM]
    /\ port \in DOMAIN cache[AF_INET][SOCK_DGRAM][name]

\* C8: listen_for_me raises SocketInUseError if and only if the listen cache
\* already held an exact, non-wildcard match for the request; in particular
\* a request for port 0 is never refused.
C8_SocketInUseIffExactMatch ==
    tp_last.op = "listen" =>
        /\ (tp_last.raised = "SocketInUseError")
              <=> ExactListenMatch(tp_last.before, tp_last.name, tp_last.port)
        /\ tp_last.port = 0 => tp_last.raised = ""

\* ---- C11
\* A step of get_send_from_address (it always takes a hold on a proxy).
SendFromStep == tp_last'.op = "send from" /\ proxies' # proxies

\* The connected proxies the cache holds for a remote name and port.
CachedFor(remote_name, remote_port) ==
    {q \in Leaves(tp_connected_sockets, 6) :
        /\ proxies[q].remote_name = remote_name
        /\ proxies[q].remote_port = remote_port}

\* C11: get_send_from_address for a remote for which a connected socket is
\* cached returns that proxy, makes no new socket and adds exactly one to its
\* retain count; only with no match does it connect a new socket, retained
\* once and put in the connected cache.
C11_SendFromFindsOrCreates ==
    [][SendFromStep =>
         LET sck == tp_last'.proxy
             matching == CachedFor(tp_last'.name, tp_last'.port)
         IN  IF matching # {}
             THEN /\ sck \in matching
                  /\ Len(proxies') = Len(proxies)
                  /\ proxies'[sck].retain = proxies[sck].retain + 1
                  /\ \A q \in 1..Len(proxies) : q # sck => proxies'[q] = proxies[q]
                  /\ Leaves(tp_connected_sockets', 6) = Leaves(tp_connected_sockets, 6)
             ELSE /\ Len(proxies') = Len(proxies) + 1
                  /\ sck = Len(proxies')
                  /\ proxies'[sck].retain = 1
                  /\ proxies'[sck].remote_name = tp_last'.name
                  /\ proxies'[sck].remote_port = tp_last'.port
                  /\ Leaves(tp_connected_sockets', 6)
                        = Leaves(tp_connected_sockets, 6) \cup {sck}]_vars

\* Sockets to two remotes are cached, and a further request for the second
\* remote has been given the second socket again.
C11_Witness ==
    /\ tp_last.op = "send from"
    /\ tp_last.name = "10.0.0.3"
    /\ Len(proxies) = 2
    /\ proxies[1].remote_name = "10.0.0.2"
    /\ tp_last.proxy = 2
    /\ proxies[2].retain = 2

\* ---- C12
\* Every key path of a cache tree `depth` levels deep leads to an open socket
\* proxy: no dict below the root is empty and every leaf is a proxy whose
\* socket has not been closed.
RECURSIVE LeadsToLiveSockets(_, _)
LeadsToLiveSockets(root, depth) ==
    \A k \in DOMAIN root :
        IF depth = 1
        THEN root[k] \in 1..Len(proxies) /\ proxies[root[k]].closes = 0
        ELSE DOMAIN root[k] # {} /\ LeadsToLiveSockets(root[k], depth - 1)

\* C12: in every reachable state a key path exists in the listen or the
\* connected cache tree only if it leads to a live socket proxy (lookups and
\* failed requests leave no empty branch, a release prunes every branch that
\* no longer leads to a socket).
C12_PathsLeadToLiveSockets ==
    /\ LeadsToLiveSockets(tp_listen_sockets, 4)
    /\ LeadsToLiveSockets(tp_connected_sockets, 6)

\* ---- C13
\* Dialog d is in the maps as its state says: established, it is in the
\* established map under its dialogID and its provisional ID is not in the
\* provisional map; not established, it is in the provisional map.
GroupedByState(d, rec, pds, eds) ==
    IF rec.established
    THEN /\ dialogID(rec) \in DOMAIN eds
         /\ eds[dialogID(rec)] = d
         /\ provisionalDialogID(rec) \notin DOMAIN pds
    ELSE /\ provisionalDialogID(rec) \in DOMAIN pds
         /\ pds[provisionalDialogID(rec)] = d

\* C13: whenever the transport has forwarded a message to a dialog, the dialog
\* maps afterwards reflect the dialog's state: a dialog that exposes dialogID
\* is in the established map and its provisional ID is absent from the
\* provisional map, and a dialog without dialogID is in the provisional map.
C13_MapsReflectDialogState ==
    [][ConsumeStep =>
         \A d \in 1..Len(dialogs') :
            ConsumeCall(d) \in Range(sip_last'.calls)
            => GroupedByState(d, dialogs'[d], sptr_provisionalDialogs',
                              sptr_establishedDialogs')]_vars

\* ---- C14
\* The entry of the established map under an ID is a dialog object that
\* exposes that ID as its dialogID: so one object per ID, and no object under
\* two IDs.
EstablishedEntriesAreTheirDialogs ==
    \A id \in DOMAIN sptr_establishedDialogs :
        LET d == sptr_establishedDialogs[id]
        IN  /\ d \in 1..Len(dialogs)
            /\ dialogs[d].established
            /\ dialogID(dialogs[d]) = id

\* No step gives an ID that has an entry another dialog object.
EstablishedEntriesKept ==
    \A id \in DOMAIN sptr_establishedDialogs \cap DOMAIN sptr_establishedDialogs' :
        sptr_establishedDialogs'[id] = sptr_establishedDialogs[id]

InDialogStep == ConsumeStep /\ RoutePath(sip_last'.msg) = "in dialog"

\* C15: an in-dialog message (To tag present) is looked up first in the
\* established map and then, by its derived provisional ID, in the provisional
\* map, and the dialog found consumes it; when neither matches the message is
\* dropped: no dialog is fabricated, no handler or dialog is invoked and both
\* maps are unchanged.
C15_UnroutableInDialogDropped ==
    [][InDialogStep =>
         LET msg == sip_last'.msg
             did == IF isresponse(msg)
                    THEN EstablishedDialogID(msg.callId, msg.fromTag, msg.toTag)
                    ELSE EstablishedDialogID(msg.callId, msg.toTag, msg.fromTag)
             pdid == ProvisionalDialogIDFromEstablishedID(did)
         IN  /\ Len(dialogs') = Len(dialogs)
             /\ IF did \in DOMAIN sptr_establishedDialogs
                THEN sip_last'.calls = <<ConsumeCall(sptr_establishedDialogs[did])>>
                ELSE IF pdid \in DOMAIN sptr_provisionalDialogs
                THEN sip_last'.calls = <<ConsumeCall(sptr_provisionalDialogs[pdid])>>
                ELSE /\ sip_last'.calls = <<>>
                     /\ dialogs' = dialogs
                     /\ sptr_provisionalDialogs' = sptr_provisionalDialogs
                     /\ sptr_establishedDialogs' = sptr_establishedDialogs]_vars

\* A handler is registered for the To AOR of an in-dialog request that
\* carries the Call-ID of a dialog the transport holds but not its tags: the
\* request found no dialog and nothing was called.
C15_Witness ==
    /\ sip_last.op = "consume"
    /\ RoutePath(sip_last.msg) = "in dialog"
    /\ sip_last.msg.type = "INVITE"
    /\ sip_last.msg.toAOR \in DOMAIN sptr_dialogHandlers
    /\ sip_last.calls = <<>>
    /\ Len(dialogs) = 1
    /\ Registered(1)
    /\ dialogs[1].callId = sip_last.msg.callId

\* ---- C16
\* A request and a response of one dialog as one endpoint receives them: the
\* same Call-ID, and the tags of From and To changed over.
SameDialogOtherDirection(msg, other) ==
    /\ isresponse(other) # isresponse(msg)
    /\ other.callId = msg.callId
    /\ other.fromTag = msg.toTag
    /\ other.toTag = msg.fromTag

\* C16: the EstablishedDialogID computed for an inbound in-dialog message is
\* (Call-ID, To-tag, From-tag) for a request and (Call-ID, From-tag, To-tag)
\* for a response, so a request and a response of the same dialog received by
\* the same endpoint give the same ID.
C16_DialogIDByDirection ==
    (sip_last.op = "consume" /\ RoutePath(sip_last.msg) = "in dialog")
    => LET msg == sip_last.msg
       IN  /\ sip_last.did = IF isresponse(msg)
                             THEN <<msg.callId, msg.fromTag, msg.toTag>>
                             ELSE <<msg.callId, msg.toTag, msg.fromTag>>
           /\ \A other \in SipMessages :
                 SameDialogOtherDirection(msg, other)
                 => InDialogID(other) = sip_last.did

\* A response whose From tag is the local tag of the first dialog and whose
\* To tag is the dialog's remote tag has been given that dialog's ID and
\* consumed by it.
C16_Witness ==
    /\ sip_last.op = "consume"
    /\ isresponse(sip_last.msg)
    /\ sip_last.dlg = 1
    /\ sip_last.msg.fromTag = dialogs[1].localTag
    /\ sip_last.msg.toTag = dialogs[1].remoteTag
    /\ sip_last.msg.fromTag # sip_last.msg.toTag
    /\ sip_last.did = dialogID(dialogs[1])

\* ---- C17
\* The variant of client transaction made for a request.
ClientVariant(request) ==
    IF request.method = "INVITE" THEN "InviteClientTransaction"
    ELSE "NonInviteClientTransaction"

\* The requests of the exchange a response belongs to: the same Via branch
\* and the method its CSeq names.
RequestsOfExchange(response) ==
    {rq \in tm_sent : rq.branch = response.branch /\ rq.method = response.reqtype}

\* C17: transaction_for_inbound_message given a response returns the client
\* transaction registered under the recomputed key (client, Via branch, CSeq
\* method), that is the one created for the request of the same exchange, and
\* raises KeyError when none exists; it never creates a transaction or changes
\* the table.
C17_ResponseToClientTransaction ==
    (tm_last.op = "inbound" /\ ~tm_last.msg.isrequest)
    => LET tk == transaction_key_for_message("client", tm_last.msg)
       IN  /\ transactions = tm_last.before
           /\ IF tk \in DOMAIN tm_last.before
              THEN tm_last.result = Return(tm_last.before[tk])
              ELSE tm_last.result = Raise("KeyError; message type")
           /\ \A rq \in RequestsOfExchange(tm_last.msg) :
                 tm_last.result = Return(ClientVariant(rq))

\* ---- C18
\* The variant of server transaction made for a request.
ServerVariant(request) ==
    IF request.method = "INVITE" THEN "InviteServerTransaction"
    ELSE "NonInviteServerTransaction"

\* C18: transaction_for_inbound_message given a request returns the server
\* transaction of the method's variant registered under (server, Via branch,
\* CSeq method): the first request of an exchange constructs and registers
\* it, and a retransmission gets the transaction already registered.
C18_ServerTransactionForRequest ==
    (tm_last.op = "inbound" /\ tm_last.msg.isrequest)
    => LET tk == transaction_key_for_message("server", tm_last.msg)
       IN  /\ tm_last.result = Return(ServerVariant(tm_last.msg))
           /\ tk \in DOMAIN transactions
           /\ transactions[tk] = ServerVariant(tm_last.msg)
           /\ tk \in DOMAIN tm_last.before => transactions = tm_last.before

\* ---- C19
\* C19: transaction_for_outbound_message given a response that matches no
\* server transaction and is not a 2xx to an INVITE fails with the KeyError
\* of the lookup, enriched with the message type; no transaction is created
\* and the table is unchanged.
C19_UnmatchedResponseKeyError ==
    (/\ tm_last.op = "outbound"
     /\ ~tm_last.msg.isrequest
     /\ transaction_key_for_message("server", tm_last.msg)
            \notin DOMAIN tm_last.before
     /\ ~(/\ 200 <= tm_last.msg.code /\ tm_last.msg.code < 300
          /\ tm_last.msg.reqtype = "INVITE"))
    => /\ tm_last.result = Raise("KeyError; message type")
       /\ transactions = tm_last.before

\* A 2xx response to a BYE, for which no server transaction is registered,
\* has been refused with the enriched KeyError.
C19_Witness ==
    /\ tm_last.op = "outbound"
    /\ ~tm_last.msg.isrequest
    /\ tm_last.msg.code = 200
    /\ tm_last.msg.reqtype = "BYE"
    /\ tm_last.result = Raise("KeyError; message type")
    /\ transactions = tm_last.before

\* ---- C20
\* C20: the table maps each transaction key to at most one in-flight
\* transaction: add_transaction_for_message under a key that is free stores
\* the transaction under it, and under a key in use raises a registration
\* error and keeps the transaction that is there.
C20_OneTransactionPerKey ==
    tm_last.op = "add"
    => \E ttype \in {"client", "server"} :
          LET tk == transaction_key_for_message(ttype, tm_last.msg)
          IN  IF tk \in DOMAIN tm_last.before
              THEN /\ tm_last.result.kind = "raise"
                   /\ tm_last.result.exc \notin {"TypeError", "AttributeError"}
                   /\ transactions = tm_last.before
              ELSE /\ tm_last.result.kind = "return"
                   /\ DOMAIN transactions = DOMAIN tm_last.before \cup {tk}
                   /\ \A k \in DOMAIN tm_last.before :
                         transactions[k] = tm_last.before[k]

\* ---- C21
\* C21: when send_message fails because serialising the message raises
\* Incomplete, the retain it took on the send-from socket is released before
\* the exception is raised again: Incomplete is what the caller sees, a
\* socket that was cached has the retain count it had before the call, and a
\* socket made for the call is closed and out of the cache.
C21_FailedSendReleasesRetain ==
    (tp_last.op = "send" /\ tp_last.raised # "")
    => LET sck == tp_last.proxy
       IN  /\ tp_last.raised = "Incomplete"
           /\ IF sck <= Len(tp_last.before)
              THEN proxies[sck].retain = tp_last.before[sck].retain
              ELSE /\ proxies[sck].retain = 0
                   /\ proxies[sck].closes = 1
                   /\ ~Cached(sck)

\* ---- C22
\* Data that contains CRLF CRLF and that Message.Parse refuses.
Malformed(data) == find(data, eoleol) # -1 /\ ~Parse(data).ok

\* C22: when parsing fails on received data that contains CRLF CRLF, the
\* malformed unit is dropped: sipByteConsumer routes nothing for it (no
\* message is consumed in that read), and the read after it offers the parser
\* the newly received bytes only, not the malformed ones again.
C22_MalformedDroppedNotRetried ==
    /\ [](Malformed(dm_last.offered) => ~dm_last.routed)
    /\ [](Malformed(dm_prev.chunk) => dm_last.offered = dm_last.chunk)
    /\ [][nMessages' = nMessages + 1 => ~Malformed(dm_last'.offered)]_vars

\* A lone CRLF CRLF arrived and was refused by the parser, and the complete
\* INVITE that arrived after it has been parsed on its own and routed.
C22_Witness ==
    /\ dm_prev.chunk = eoleol
    /\ dm_prev.ret = 0
    /\ dm_last.chunk = Wire("INVITE")
    /\ dm_last.offered = Wire("INVITE")
    /\ dm_last.routed
    /\ nMessages = 1

\* ---- C23
\* A step in which the loop's select() has returned with the SIP socket
\* readable and the socket's action has been run.
SocketReadStep ==
    rt_pc = "select" /\ rt_pc' # "select" /\ SockFD \in Readable(rt_rsrcs)

\* C23: no protocol-level error (a malformed message, a message lacking
\* dialog-identifying headers, a message matching no dialog) stops the
\* reactor loop: the thread is never ended by inbound data, and after the
\* socket's action has run the loop goes on to check its timers with its
\* deadlines and sources as they were, so that later messages and deadlines
\* are serviced.
C23_ProtocolErrorsKeepLoopRunning ==
    /\ [](rt_pc # "crashed")
    /\ [][SocketReadStep =>
            /\ rt_pc' = "check"
            /\ rthr_retryTimes' = rthr_retryTimes
            /\ rthr_fdSources' = rthr_fdSources
            /\ rthr_cancelled' = rthr_cancelled]_vars

\* After an earlier message was consumed and a terminator with nothing before
\* it failed to parse, the socket delivered an INVITE that was given to its
\* handler, and the loop has gone on to fire the deadline.
C23_Witness ==
    /\ sip_last.op = "consume"
    /\ sip_last.msg.type = "INVITE"
    /\ Len(sip_last.calls) >= 1
    /\ nMessages = 2
    /\ dm_prev.chunk = eoleol
    /\ dm_last.chunk = Wire("INVITE")
    /\ rt_pc = "remove"
    /\ nFired = 1
    /\ wakesSinceCancel = 0

\* ---- C24
\* A step in which consumeMessage has been given the message sip_last'.msg.
GivenToConsumeMessage == sip_last'.op = "consume" /\ sipVars' # sipVars

\* A message consumeMessage may route: not an ACK, with a From tag and a
\* non-empty Call-ID.
Routable(msg) == msg.type # "ACK" /\ msg.fromTag # NoTag /\ msg.callId # ""

\* C24: consumeMessage records every message it is given; it calls an AOR
\* handler or a dialog only for a message that is not an ACK, carries a From
\* tag and has a non-empty Call-ID; for any other message nothing is called
\* and the dialog maps (and the dialogs) are as they were.
C24_RoutesOnlyRoutableMessages ==
    [][GivenToConsumeMessage =>
         /\ nMessages' = nMessages + 1
         /\ sip_last'.calls # <<>> => Routable(sip_last'.msg)
         /\ ~Routable(sip_last'.msg) =>
               /\ sip_last'.calls = <<>>
               /\ sptr_provisionalDialogs' = sptr_provisionalDialogs
               /\ sptr_establishedDialogs' = sptr_establishedDialogs
               /\ sptr_dialogHandlers' = sptr_dialogHandlers
               /\ dialogs' = dialogs]_vars

\* An ACK that carries the ID of an established dialog held by the
\* transport has been recorded as the second message, and nothing was called.
C24_Witness ==
    /\ sip_last.op = "consume"
    /\ sip_last.msg.type = "ACK"
    /\ sip_last.calls = <<>>
    /\ nMessages = 2
    /\ InDialogID(sip_last.msg) \in DOMAIN sptr_establishedDialogs

\* ---- C25
\* The loop is blocked in select() and addRetryTime has inserted a new
\* deadline (lastAdded), still pending, whose wake-up byte it has yet to send.
AddedWhileBlocked ==
    /\ rt_pc = "select"
    /\ add_pc = "send"
    /\ \E i \in 1..Len(rthr_retryTimes) : rthr_retryTimes[i] = lastAdded

\* No wake-up byte is in the trigger socket or about to be sent.
NoWakePending == trigger = 0 /\ add_pc = "idle" /\ cancel_pc = "idle"

\* C25: a deadline added with addRetryTime while the loop is blocked in
\* select(), on the one-hour default wait or on any other timeout, wakes the
\* loop: it returns from select() without the clock having to reach the
\* timeout it went in with, and once the clock has reached the deadline it
\* fires the action. The loop is never left asleep, with a deadline pending
\* and no wake-up on its way, on a timeout longer than the wait its first
\* deadline gives.
C25_AddedDeadlineWakesLoop ==
    /\ AddedWhileBlocked ~> (rt_pc = "check")
    /\ (AddedWhileBlocked /\ clock >= lastAdded) ~> (rt_pc = "remove")
    /\ []((rt_pc = "select" /\ rthr_retryTimes # <<>> /\ NoWakePending)
            => selectUntil <= clock + rthr_retryTimes[1])

\* The only deadline ever added was inserted, its wake-up byte was read by
\* the loop out of a select() it had entered with the one-hour wait, and the
\* action has fired with the clock at the deadline.
C25_Witness ==
    /\ rt_pc = "remove"
    /\ nFired = 1
    /\ nAddCalls = 1
    /\ nInserted = 1
    /\ nCancel = 0
    /\ add_pc = "idle"
    /\ trigger = 0
    /\ clock = lastAdded

\* ---- C26
\* A step in which addInputFD has been called (fd_last' is the call).
AddInputFDStep == fd_last' # fd_last \/ rthr_fdSources' # rthr_fdSources

\* C26: addInputFD for a descriptor that is already registered raises
\* ValueError and leaves the registered sources, each with its action, as
\* they were; only a descriptor that is not registered gets a source, so no
\* descriptor ever has its source replaced or a second one added.
C26_DuplicateFDRaisesValueError ==
    [][AddInputFDStep =>
         IF fd_last'.fd \in DOMAIN rthr_fdSources
         THEN /\ fd_last'.raised = "ValueError"
              /\ rthr_fdSources' = rthr_fdSources
         ELSE /\ fd_last'.raised = ""
              /\ DOMAIN rthr_fdSources' = DOMAIN rthr_fdSources \cup {fd_last'.fd}
              /\ rthr_fdSources'[fd_last'.fd] = fd_last'.action
              /\ \A fd \in DOMAIN rthr_fdSources :
                    rthr_fdSources'[fd] = rthr_fdSources[fd]]_vars

\* The socket is registered with one action and a registration of it with
\* the other action has just been refused.
C26_Witness ==
    /\ fd_last = [fd |-> SockFD, action |-> "other_action", raised |-> "ValueError"]
    /\ rthr_fdSources[SockFD] = "socket_selected"

\* ---- C27
\* Listen proxy p, not yet closed, was created for the description with
\* this name and port: it is bound to the name, and to the port or, the
\* description leaving the port as 0, to a port the transport chose.
CreatedFor(prox, p, name, port) ==
    /\ prox[p].remote_name = ""
    /\ prox[p].closes = 0
    /\ prox[p].name = name
    /\ \/ prox[p].port = port
       \/ port = 0 /\ prox[p].port >= first_unregistered_port

\* C27: release_listen_address for a description for which no current
\* listen socket was created raises KeyError and changes no socket's retain
\* count and not the cache, whatever other listen sockets exist and also
\* when the description leaves the port as 0.
C27_UnknownDescriptionKeyError ==
    (/\ tp_last.op = "release description"
     /\ \A p \in 1..Len(tp_last.before[1]) :
           ~CreatedFor(tp_last.before[1], p, tp_last.name, tp_last.port))
    => /\ tp_last.raised = "KeyError"
       /\ proxies = tp_last.before[1]
       /\ tp_listen_sockets = tp_last.before[2]

\* ---- C28
\* A step in which the named operation of the handler registry was called.
RegistryStep(op) == sip_last'.op = op /\ sipVars' # sipVars

\* The registry has the entries of `less` and one more AOR.
OneMoreAOR(less, more) ==
    /\ Cardinality(DOMAIN more) = Cardinality(DOMAIN less) + 1
    /\ \A aor \in DOMAIN less : aor \in DOMAIN more /\ more[aor] = less[aor]

LookedUpListen ==
    [sock_family : {AF_INET}, sock_type : {SOCK_DGRAM},
     name : {"0.0.0.0", LoopbackName, SendFromAddressNameAny},
     port : {0, SipPort}]
LookedUpConnected ==
    [sock_family : {AF_INET}, sock_type : {SOCK_DGRAM},
     name : {"10.0.0.1", SendFromAddressNameAny}, port : {0, 32768},
     flowinfo : {None}, scopeid : {None},
     remote_name : RemoteNames, remote_port : {SipPort}]
    \cup [sock_family : {AF_INET6}, sock_type : {SOCK_DGRAM},
          name : {"2001:db8::1", SendFromAddressNameAny}, port : {0, 32768},
          flowinfo : {None, 0}, scopeid : {None, 0, 3},
          remote_name : RemoteNames6, remote_port : {SipPort}]

\* The entry of a find tuple leaves its field unspecified.
IsWildcard(lk) ==
    \/ lk.finder = "find_suitable_name" /\ lk.key = SendFromAddressNameAny
    \/ lk.finder = "find_suitable_port" /\ lk.key = 0
    \/ lk.finder = "find_suitable_flowinfo_or_scopeid" /\ lk.key = None

\* The dict reached from root by the first n keys of a path.
RECURSIVE DictAfter(_, _, _)
DictAfter(root, path, n) ==
    IF n = 0 THEN root ELSE DictAfter(root, path, n - 1)[path[n]]

\* What C29 says of every result find_cached_object can give for a find
\* tuple on a cache.
FoundLevelByLevel(cache, tpl) ==
    \A r \in find_cached_object(cache, tpl) :
        /\ r.raised = ""
        /\ (r.obj # 0) <=> (Len(r.path) = Len(tpl))
        /\ r.obj # 0 => r.obj = DictAfter(cache, r.path, Len(r.path))
        /\ \A i \in 1..Len(r.path) :
              \/ r.path[i] = tpl[i].key
              \/ /\ IsWildcard(tpl[i])
                 /\ tpl[i].key \notin DOMAIN DictAfter(r.dict, r.path, i - 1)
                 /\ r.path[i] \in DOMAIN DictAfter(cache, r.path, i - 1)
        /\ Len(r.path) < Len(tpl) =>
              LET lk == tpl[Len(r.path) + 1]
                  cur == DictAfter(r.dict, r.path, Len(r.path))
              IN  /\ lk.key \notin DOMAIN cur
                  /\ IsWildcard(lk) => DOMAIN cur = {}

\* C29: find_cached_object walks the cache level by level in the order of
\* the find tuple, takes the exact key where it is present and otherwise,
\* for a field left unspecified, any cached key; it returns a socket exactly
\* when every level matched, and otherwise None with the matched prefix as
\* the path; a concrete name, port or scope id never matches another key.
C29_FindWalksLevelByLevel ==
    /\ \A la \in LookedUpListen :
          FoundLevelByLevel(tp_listen_sockets,
                            convert_listen_description_into_find_tuple(la))
    /\ \A cad \in LookedUpConnected :
          FoundLevelByLevel(tp_connected_sockets,
                            convert_connected_address_description_into_find_tuple(cad))

\* ---- C30
\* The connected proxies to a remote whose sockets are open.
OpenProxiesTo(remote_name) ==
    {p \in 1..Len(proxies) :
        proxies[p].remote_name = remote_name /\ proxies[p].closes = 0}

\* C30: whatever way the calls of different threads overtake each other,
\* once every get_send_from_address has returned the cache is consistent:
\* the requests for one remote have ended with one cached socket, which
\* holds a retain for each of them, and every socket created and not closed
\* is in the cache.
C30_ConcurrentRequestsShareSocket ==
    (\A t \in DOMAIN tp_threads : tp_threads[t].pc = "idle")
    => /\ \A remote_name \in RemoteNames :
             /\ Cardinality(OpenProxiesTo(remote_name)) <= 1
             /\ \A p \in OpenProxiesTo(remote_name) :
                   proxies[p].retain >= proxies[p].held
       /\ \A p \in 1..Len(proxies) : proxies[p].closes = 0 => Cached(p)

\* ---- C31
\* C31: every source registered with the reactor belongs to a socket that is
\* still open: the descriptor of a proxy that was released to zero and whose
\* socket was closed is no longer among the registered sources.
C31_SourcesBelongToOpenSockets ==
    \A p \in 1..Len(proxies) : proxies[p].fd_source => proxies[p].closes = 0

\* ---- C32
\* C32: a descriptor registered while the loop is blocked interrupts the
\* wait: when a registered descriptor has data to read and the loop is in
\* select(), the select() has something readable to return on, the
\* descriptor itself or the trigger, and need not wait for its timeout.
C32_AddedDescriptorInterruptsWait ==
    \A fd \in fdReady :
        (rt_pc = "select" /\ fd \in DOMAIN rthr_fdSources)
        => Readable(rt_rsrcs) # {}

\* ---- C33
\* C33: whatever addRetryTime calls and firings there have been, the list of
\* pending deadlines is strictly ascending, so it holds no value twice.
C33_RetryTimesStrictlyAscending ==
    \A i, j \in 1..Len(rthr_retryTimes) :
        i < j => rthr_retryTimes[i] < rthr_retryTimes[j]

\* After a deadline fired and was removed, a deadline below the one left was
\* added, and the list holds both in order.
C33_Witness ==
    /\ nConsumed = 1
    /\ nAddCalls = 3
    /\ nInserted = 3
    /\ lastAdded = 1
    /\ Len(rthr_retryTimes) = 2

\* ---- C34
\* A step in which GetBoundSocket was called by itself.
BindStep == tp_last' = tp_last /\ (gb_last' # gb_last \/ next_port' # next_port)

\* The ports a generator with the filter of the call draws, from the
\* next_port the call found: tried holds them one after the other.
DrawnInTurn(call) ==
    \A i \in 1..Len(call.tried) :
        LET g == UnregisteredPortGenerator(
                     call.start_port,
                     IF i = 1 THEN call.start_port ELSE call.tried[i - 1],
                     i = 1, call.port_filter)
        IN  g.yield /\ g.port = call.tried[i]

\* C34: asked for port 0, GetBoundSocket binds at most max_retries times,
\* each time on the next port its generator draws, and raises BadNetwork
\* when every bind failed; asked for a port it binds once, on that port, and
\* raises BadNetwork when that fails; a socket it returns is bound to the
\* last port tried.
C34_GetBoundSocketAttempts ==
    [][BindStep =>
         LET call == gb_last'
             failed(i) == AddressInUse(call.name, call.tried[i])
         IN  /\ IF call.port # 0
                THEN call.tried = <<call.port>>
                ELSE Len(call.tried) <= max_retries /\ DrawnInTurn(call)
             /\ call.raised = "BadNetwork"
                   <=> \A i \in 1..Len(call.tried) : failed(i)
             /\ call.raised \in {"", "BadNetwork"}
             /\ call.raised = ""
                   => /\ call.bound
                      /\ call.tried # <<>>
                      /\ call.bound_port = call.tried[Len(call.tried)]]_vars

\* ---- C35
\* How far port p lies after start_port, going up and wrapping after
\* last_port.
PortsAfter(start_port, p) ==
    (p - start_port) % (last_port - first_unregistered_port + 1)

\* C35: the ports one generator has yielded lie in the unregistered range,
\* are accepted by its port_filter and come in increasing order with one
\* wrap from last_port to first_unregistered_port, within one cycle from the
\* port the generator started at; next_port stays in the range.
C35_PortsOfOneCycleInOrder ==
    /\ next_port \in first_unregistered_port..last_port
    /\ \A g \in DOMAIN gens :
          LET gen == gens[g]
          IN  /\ \A i \in 1..Len(gen.yielded) :
                    /\ gen.yielded[i] \in first_unregistered_port..last_port
                    /\ gen.port_filter.all \/ gen.yielded[i] \in gen.port_filter.ports
              /\ \A i, j \in 1..Len(gen.yielded) :
                    i < j => PortsAfter(gen.start_port, gen.yielded[i])
                               < PortsAfter(gen.start_port, gen.yielded[j])

\* ---- C36
\* A step of a call that only looked the cache up: a listen_for_me that
\* raised, or a release_listen_address that found no socket.
LookedUpOnly ==
    /\ tp_last' # tp_last
    /\ \/ tp_last'.op = "listen" /\ tp_last'.raised \in {"SocketInUseError", "BadNetwork"}
       \/ tp_last'.op \in {"release", "release description"} /\ tp_last'.raised = "KeyError"

\* C36: a cache lookup, whether or not it finds a socket, leaves the listen
\* cache and the connected cache as they were: no key is inserted and no
\* branch made.
C36_LookupLeavesCacheUnchanged ==
    [][LookedUpOnly => /\ tp_listen_sockets' = tp_listen_sockets
                       /\ tp_connected_sockets' = tp_connected_sockets]_vars

\* ---- C37
\* A step in which a listen socket received a datagram.
DatagramStep == tp_last'.op = "datagram" /\ Len(proxies') = Len(proxies) + 1

\* C37: a datagram from a remote whose connected proxy is cached leaves
\* that proxy in the cache, with the retain count it had: its holders and
\* later lookups for the remote have the same proxy.
C37_DatagramKeepsCachedProxy ==
    [][DatagramStep =>
         \A p \in 1..Len(proxies) :
            /\ proxies'[p] = proxies[p]
            /\ Cached(p) => Cached(p)']_vars

\* ---- C38
\* C38: the action is never fired early. In every step that invokes the
\* action a deadline is pending, and the clock value the loop has just read
\* is at or past the earliest pending deadline.
C38_NeverFiredEarly ==
    [][nFired' # nFired =>
          /\ rt_pc = "fire"
          /\ rthr_retryTimes # <<>>
          /\ rt_now >= rthr_retryTimes[1]
          /\ rt_now <= clock]_vars

\* The action has been invoked for a deadline the loop found due, while a
\* deadline added after the loop read the head is pending in front of it.
C38_Witness ==
    /\ rt_pc = "remove"
    /\ nFired = 1
    /\ Len(rthr_retryTimes) = 2
    /\ rthr_retryTimes[1] < rt_next
    /\ rt_now >= rt_next

\* ---- C39
\* A step in which updateDialogGrouping(dlg) or removeDialog(dlg) ran, called
\* on the transport or, for a new dialog, by consumeDialogCreatingMessage.
GroupingStep ==
    \/ sip_last'.op \in {"update grouping", "remove dialog"}
    \/ sip_last'.op = "consume" /\ Len(dialogs') = Len(dialogs) + 1

\* The dialog that step was for.
GroupedDialog ==
    IF sip_last'.op = "consume" THEN Len(dialogs') ELSE sip_last'.dlg

\* Every entry of the map that refers to another dialog than d is kept.
OthersKept(d, before, after) ==
    \A k \in DOMAIN before :
        before[k] # d => k \in DOMAIN after /\ after[k] = before[k]

DataCallbackStep == dm_last' # dm_last \/ dm_prev' # dm_prev

\* C40: sipByteConsumer reports a message it parsed as consumed, returning
\* its parsedBytes, also when consumeMessage raised for it; the message is
\* given to consumeMessage once in that read, and the read after it offers
\* the new bytes only, so it is not delivered again.
C40_FailedRoutingStillConsumed ==
    /\ [](dm_last.routed =>
             /\ Parse(dm_last.offered).ok
             /\ dm_last.ret = Parse(dm_last.offered).parsedBytes
             /\ dm_last.ret > 0)
    /\ [](dm_last.offered = dm_last.chunk)
    /\ [][DataCallbackStep =>
             nMessages' = nMessages + (IF dm_last'.routed THEN 1 ELSE 0)]_vars

\* A response that belongs to no dialog was parsed and given to
\* consumeMessage, which raised on its assert; the consumer returned the
\* bytes of the message and the loop went on to check its timers.
C40_Witness ==
    /\ dm_last.chunk = Wire("200")
    /\ dm_last.routed
    /\ dm_last.ret = 5
    /\ sip_last.op = "consume"
    /\ sip_last.msg.type = "200"
    /\ sip_last.raised = "AssertionError"
    /\ nMessages = 2
    /\ rt_pc = "check"

====
